---- MODULE Spec2Model ----
(***************************************************************************)
(* BallKnowledge: the roster servers (scripts/api_server.py,               *)
(* scripts/nfl_api_server.py), the career-pool batch job                   *)
(* (scripts/generate_nba_careers.py), the incremental updater              *)
(* (scripts/update_nba_careers.py) and the football career generator       *)
(* (scripts/generate_nfl_careers.py).                                      *)
(*                                                                         *)
(* Time is counted in whole hours.  Per-game scores are integers: for the   *)
(* servers the provider's PTS column in hundredths of a point and a stored *)
(* ppg in tenths, for the career scripts both in tenths.                   *)
(* A Python str whose characters matter is a tuple of one-character        *)
(* strings; a Python dict read from JSON is a sequence of <<key, value>>   *)
(* members.                                                                *)
(***************************************************************************)
EXTENDS Integers, Sequences, FiniteSets, TLC

VARIABLES
    sport,               \* the sport whose server, or whose career scripts, run: "nba" or "nfl"
    now,                 \* datetime.now(), in hours
    files,               \* CACHE_DIR: cache key -> content of the file
    season_stats_cache,  \* api_server._season_stats_cache
    season_players_cache, \* api_server._season_players_cache
    schedules_cache,     \* nfl_api_server._schedules_cache
    coerced,             \* the last call of a safe_int / safe_float / safe_str helper
    workers,             \* the worker processes sharing one roster cache file, and that file's bytes
    saved,               \* per key, the arguments of the last save_to_cache that wrote the file
    last,                \* the last request handled and its response
    nfl_data_available,  \* nfl_api_server.NFL_DATA_AVAILABLE: the provider library was imported
    era,                 \* the provider's latest basketball season (start year)
    num_players,         \* players 1..num_players are veterans of the directory
    runs,                \* runs of the career scripts started so far
    partial_file,        \* nba_careers.json.partial
    out_file,            \* nba_careers.json
    nfl_out_file,        \* nfl_careers.json
    gen,                 \* the running generate_nba_careers.py process
    upd,                 \* the running update_nba_careers.py process
    log                  \* the runs that completed, latest last (at most two kept)

career_vars == <<era, num_players, runs, partial_file, out_file,
                 nfl_out_file, gen, upd, log>>

----------------------------------------------------------------------------
(* Bounds of the model *)

MaxWindows == 2   \* expiry windows the clock runs through
MaxExtra   == 1   \* single hours the clock takes after a whole window

----------------------------------------------------------------------------
(* Python values *)

None == [some |-> FALSE, val |-> <<>>]

\* no save_to_cache has written the file
NoSave == [some |-> FALSE, at |-> 0, players |-> <<>>]
Some(v) == [some |-> TRUE, val |-> v]

\* `if x:` for x an Optional[list]
Truthy(x) == x.some /\ x.val # <<>>

\* no coercion helper has been called
NotCoerced == [fn |-> "none"]

\* no worker process is modelled
NoWorkers == [kind |-> "none"]

Range(s) == {s[i] : i \in 1..Len(s)}

\* str.upper() on the team codes requests carry
upper(team) ==
    CASE team = "lal" -> "LAL"
      [] team = "lv"  -> "LV"
      [] OTHER        -> team

\* dict.get(key, default) on a JSON object; a later member overrides an earlier one
RECURSIVE dict_get(_, _, _)
dict_get(obj, key, default) ==
    IF obj = <<>> THEN default
    ELSE LET m == obj[Len(obj)]
         IN  IF m[1] = key THEN m[2] ELSE dict_get(SubSeq(obj, 1, Len(obj) - 1), key, default)

dict_keys(obj) == {obj[i][1] : i \in 1..Len(obj)}

\* datetime.isoformat(): the date and the hour of the day
isoformat(t) == <<t \div 24, t % 24>>

\* datetime.fromisoformat()
fromisoformat(s) == s[1] * 24 + s[2]

----------------------------------------------------------------------------
(* The cache files, common to both servers *)

Absent == [kind |-> "absent"]
Corrupt == [kind |-> "corrupt"]

\* json.dump of a list of dicts with the given keys, in insertion order
json_dump_players(players, keys) ==
    [i \in 1..Len(players) |-> [k \in 1..Len(keys) |-> <<keys[k], players[i][keys[k]]>>]]

\* what save_to_cache leaves in the file: `wr` is the outcome of the write
\* ("ok"; "open_fails": open() raises and the file is untouched; "dump_fails":
\* the file was truncated and the dump raised)
written_file(old, wr, team, season, players, keys) ==
    CASE wr = "ok" ->
             [kind |-> "json",
              data |-> << <<"team", team>>, <<"season", season>>,
                          <<"cached_at", isoformat(now)>>,
                          <<"players", json_dump_players(players, keys)>> >>]
      [] wr = "dump_fails" -> Corrupt
      [] OTHER -> old

WriteOutcomes == {"ok", "open_fails", "dump_fails"}

\* the expiry test with >= for >
expired_at_the_limit(cached_time, expiry) == now - cached_time >= expiry

\* the expiry test with the window taken in days
expired_in_days(cached_time, expiry) == now - cached_time > expiry * 24

\* the expiry test of get_cached_roster: TRUE when the entry is expired
expired(cached_time, expiry) == now - cached_time > expiry

\* "2000-01-01", the default of data.get("cached_at", ...): a date that lies
\* more than any expiry window before the clock's first hour
DEFAULT_CACHED_AT == <<0 - 8766, 0>>

\* CACHE_DIR.mkdir(exist_ok=True) of get_cache_path, over the calls one request
\* makes: every call succeeds, the first one raises, or the one made by
\* save_to_cache raises
MkdirOutcomes == {"ok", "fails", "fails_at_save"}

\* get_cached_roster: None, or the "players" list of the file
cached_players_of(file, expiry) ==
    IF file.kind = "absent" THEN None
    ELSE IF file.kind = "corrupt" THEN None
    ELSE LET cached_time == fromisoformat(dict_get(file.data, "cached_at",
                                                   DEFAULT_CACHED_AT))
         IN  IF expired(cached_time, expiry) THEN None
             ELSE Some(dict_get(file.data, "players", <<>>))

\* pydantic: Player(**p) for a dict p read from JSON; `fields` are the model's
PlayerModelOk(p, fields) == dict_keys(p) = Range(fields)
PlayerModel(p, fields) == [f \in Range(fields) |-> dict_get(p, f, "")]

----------------------------------------------------------------------------
(* scripts/api_server.py *)

NBA_CACHE_EXPIRY_HOURS == 24
LOW_SCORER_PPG == 100          \* `ppg < 10.0`, in tenths

NBA_TEAMS == {"LAL"}
NbaTeamInputs == {"LAL", "lal", "XXX"}

S_2023_24 == <<"2", "0", "2", "3", "-", "2", "4">>
S_2023    == <<"2", "0", "2", "3">>
NbaSeasonInputs == {S_2023_24, S_2023}

\* the labels among them that are not of the form YYYY-YY
MalformedLabels == {S_2023}

NbaPlayerFields == <<"id", "name", "position", "number", "ppg", "isLowScorer">>

PlayerIds == {1, 2}

\* a row of CommonTeamRoster; player 2 has no POSITION and no NUM
NbaRosterRow(id) ==
    [PLAYER_ID |-> id,
     PLAYER    |-> IF id = 1 THEN "Ann" ELSE "Bob",
     POSITION  |-> IF id = 2 THEN None ELSE Some("G"),
     NUM       |-> IF id = 2 THEN None ELSE Some("7")]

\* tables of CommonTeamRoster, by PLAYER_ID; two of them repeat a player
NbaRosterTables == { <<>>, <<1>>, <<1, 2>>, <<2, 1>>, <<1, 1>>, <<2, 1, 2>> }

RosterCallOutcomes ==
    {[raises |-> TRUE, rows |-> <<>>]} \cup
    {[raises |-> FALSE, rows |-> [i \in 1..Len(s) |-> NbaRosterRow(s[i])]] :
        s \in NbaRosterTables}

\* tables of LeagueDashPlayerStats: PLAYER_ID and PTS (hundredths); the second
\* one repeats a player and lacks player 1
NbaStatTables ==
    { << [PLAYER_ID |-> 1, PTS |-> 2512], [PLAYER_ID |-> 2, PTS |-> 994] >>,
      << [PLAYER_ID |-> 2, PTS |-> 501], [PLAYER_ID |-> 2, PTS |-> 996] >> }

StatsCallOutcomes ==
    {[raises |-> TRUE, rows |-> <<>>]} \cup
    {[raises |-> FALSE, rows |-> t] : t \in NbaStatTables}

\* `x or ""` for an optional column
or_empty(x) == IF x.some THEN x.val ELSE ""

\* fetch_team_roster: one dict per row of the provider's table, in its order
fetch_team_roster(outcome) ==
    IF outcome.raises THEN <<>>
    ELSE [i \in 1..Len(outcome.rows) |->
            [id       |-> outcome.rows[i].PLAYER_ID,
             name     |-> outcome.rows[i].PLAYER,
             position |-> or_empty(outcome.rows[i].POSITION),
             number   |-> or_empty(outcome.rows[i].NUM)]]

\* round(float(PTS), 1): hundredths to tenths (no table holds a tie)
round1(pts) == (pts + 5) \div 10

\* fetch_season_stats: {PLAYER_ID: ppg}; a later row of a player replaces an earlier one
fetch_season_stats(outcome) ==
    IF outcome.raises THEN <<>>
    ELSE [i \in 1..Len(outcome.rows) |->
            <<outcome.rows[i].PLAYER_ID, round1(outcome.rows[i].PTS)>>]

\* the lookup with the threshold as the default: ppg_data.get(player["id"], 10.0)
ppg_of_default_ten(ppg_data, id) == dict_get(ppg_data, id, LOW_SCORER_PPG)

\* ppg_data.get(player["id"], 0.0)
ppg_of(ppg_data, id) == dict_get(ppg_data, id, 0)

\* the join keeping only the players that have a scoring row
enrich_matched_only(roster_players, ppg_data) ==
    LET matched == SelectSeq(roster_players,
                             LAMBDA player : \E r \in 1..Len(ppg_data) :
                                                 ppg_data[r][1] = player.id)
    IN  [i \in 1..Len(matched) |->
            [id |-> matched[i].id, name |-> matched[i].name,
             position |-> matched[i].position, number |-> matched[i].number,
             ppg |-> dict_get(ppg_data, matched[i].id, 0),
             isLowScorer |-> dict_get(ppg_data, matched[i].id, 0) < LOW_SCORER_PPG]]

\* get_roster, lines 413-421
enrich(roster_players, ppg_data) ==
    [i \in 1..Len(roster_players) |->
        LET player == roster_players[i]
            ppg == ppg_of(ppg_data, player.id)
        IN  [id |-> player.id, name |-> player.name, position |-> player.position,
             number |-> player.number, ppg |-> ppg, isLowScorer |-> ppg < LOW_SCORER_PPG]]

\* the sort without reverse=True: lowest first
RECURSIVE sort_by_ppg_asc(_)
sort_by_ppg_asc(players) ==
    IF players = <<>> THEN <<>>
    ELSE LET n == Len(players)
             p == players[n]
             sorted == sort_by_ppg_asc(SubSeq(players, 1, n - 1))
             k == Cardinality({j \in 1..Len(sorted) : sorted[j].ppg <= p.ppg})
         IN  SubSeq(sorted, 1, k) \o <<p>> \o SubSeq(sorted, k + 1, Len(sorted))

\* list.sort(key=lambda p: p["ppg"], reverse=True): stable, highest first
RECURSIVE sort_by_ppg_desc(_)
sort_by_ppg_desc(players) ==
    IF players = <<>> THEN <<>>
    ELSE LET n == Len(players)
             p == players[n]
             sorted == sort_by_ppg_desc(SubSeq(players, 1, n - 1))
             keep == {j \in 1..Len(sorted) : sorted[j].ppg >= p.ppg}
             k == Cardinality(keep)
         IN  SubSeq(sorted, 1, k) \o <<p>> \o SubSeq(sorted, k + 1, Len(sorted))

\* the season check without the length test
valid_season_format_by_prefix(season) == Len(season) >= 4

\* the season check of get_roster, line 381
valid_season_format(season) == Len(season) = 7 /\ season[5] = "-"

NbaKeys == {<<t, s>> : t \in NBA_TEAMS, s \in NbaSeasonInputs}

\* the response to a request, with what the handler did: the provider calls it
\* made, the list its roster fetch returned, and the save that had written the
\* key's file when the request arrived
Response(op, team, season, status, cached, players, calls, before, fetched) ==
    [op |-> op, team |-> team, season |-> season, at |-> now, status |-> status,
     cached |-> cached, players |-> players, calls |-> calls, before |-> before,
     fetched |-> fetched, exc |-> "none"]

\* the response FastAPI gives when the handler ends with an exception that is not
\* an HTTPException: status 500; `exc` names the exception
Uncaught(op, team, season, calls, before, fetched, exc) ==
    [Response(op, team, season, 500, FALSE, <<>>, calls, before, fetched)
        EXCEPT !.exc = exc]

\* the test as `if roster_players is None:`
roster_is_none(roster_players) == FALSE

\* the test inverted: `if roster_players:`
roster_not_found_inverted(roster_players) == roster_players # <<>>

\* `if not roster_players:` of get_roster
roster_not_found(roster_players) == roster_players = <<>>

\* get_season_stats without the test `if season not in _season_stats_cache`
season_stats_refetched(season, st) ==
    [s \in DOMAIN season_stats_cache \cup {season} |->
        IF s = season THEN fetch_season_stats(st) ELSE season_stats_cache[s]]

\* get_season_stats: the memo after the call
season_stats_after(season, st) ==
    IF season \in DOMAIN season_stats_cache THEN season_stats_cache
    ELSE [s \in DOMAIN season_stats_cache \cup {season} |->
            IF s = season THEN fetch_season_stats(st) ELSE season_stats_cache[s]]

\* get_roster with a cache hit that rewrites the file it read, stamping it with
\* the time of the read
get_roster_refreshing(team_in, season, ros, st, wr, mk) ==
    /\ sport = "nba"
    /\ UNCHANGED <<sport, now, nfl_data_available, season_players_cache,
                   schedules_cache, coerced, workers>>
    /\ LET team == upper(team_in)
       IN
       IF team \notin NBA_TEAMS THEN
            /\ last' = Response("roster", team, season, 404, FALSE, <<>>, <<>>, NoSave, None)
            /\ UNCHANGED <<files, season_stats_cache, saved>>
       ELSE IF ~valid_season_format(season) THEN
            /\ last' = Response("roster", team, season, 400, FALSE, <<>>, <<>>, NoSave, None)
            /\ UNCHANGED <<files, season_stats_cache, saved>>
       ELSE
       LET key == <<team, season>>
           cached_players == cached_players_of(files[key], NBA_CACHE_EXPIRY_HOURS)
       IN
       IF mk = "fails" THEN
            /\ last' = Uncaught("roster", team, season, <<>>, saved[key],
                                None, "OSError")
            /\ UNCHANGED <<files, season_stats_cache, saved>>
       ELSE IF Truthy(cached_players) THEN
            /\ last' =
                 IF \A i \in 1..Len(cached_players.val) :
                        PlayerModelOk(cached_players.val[i], NbaPlayerFields)
                 THEN Response("roster", team, season, 200, TRUE,
                               [i \in 1..Len(cached_players.val) |->
                                   PlayerModel(cached_players.val[i], NbaPlayerFields)],
                               <<>>, saved[key], None)
                 ELSE Uncaught("roster", team, season, <<>>, saved[key],
                                None, "ValidationError")
            /\ files' = [files EXCEPT ![key] =
                            [kind |-> "json",
                             data |-> Append(@.data, <<"cached_at", isoformat(now)>>)]]
            /\ UNCHANGED <<season_stats_cache, saved>>
       ELSE
       LET roster_players == fetch_team_roster(ros)
       IN
       IF roster_not_found(roster_players) THEN
            /\ last' = Response("roster", team, season, 404, FALSE, <<>>,
                                <<"roster">>, saved[key], Some(roster_players))
            /\ UNCHANGED <<files, season_stats_cache, saved>>
       ELSE
       LET memo == season_stats_after(season, st)
           enriched_players == sort_by_ppg_desc(enrich(roster_players, memo[season]))
           file == written_file(files[key], wr, team, season, enriched_players,
                                NbaPlayerFields)
           calls == IF season \in DOMAIN season_stats_cache
                    THEN <<"roster">> ELSE <<"roster", "stats">>
       IN
       IF mk = "fails_at_save" THEN
            /\ season_stats_cache' = memo
            /\ last' = Uncaught("roster", team, season, calls, saved[key],
                                Some(roster_players), "OSError")
            /\ UNCHANGED <<files, saved>>
       ELSE
            /\ season_stats_cache' = memo
            /\ files' = [files EXCEPT ![key] = file]
            /\ saved' = [saved EXCEPT ![key] =
                            IF wr = "ok" THEN [some |-> TRUE, at |-> now,
                                               players |-> enriched_players]
                            ELSE IF wr = "dump_fails" THEN NoSave
                            ELSE @]
            /\ last' = Response("roster", team, season, 200, FALSE, enriched_players,
                                calls, saved[key], Some(roster_players))

\* GET /roster/{team}/{season}
get_roster(team_in, season, ros, st, wr, mk) ==
    /\ sport = "nba"
    /\ UNCHANGED <<sport, now, nfl_data_available, season_players_cache,
                   schedules_cache, coerced, workers>>
    /\ LET team == upper(team_in)
       IN
       IF team \notin NBA_TEAMS THEN
            /\ last' = Response("roster", team, season, 404, FALSE, <<>>, <<>>, NoSave, None)
            /\ UNCHANGED <<files, season_stats_cache, saved>>
       ELSE IF ~valid_season_format(season) THEN
            /\ last' = Response("roster", team, season, 400, FALSE, <<>>, <<>>, NoSave, None)
            /\ UNCHANGED <<files, season_stats_cache, saved>>
       ELSE
       LET key == <<team, season>>
           cached_players == cached_players_of(files[key], NBA_CACHE_EXPIRY_HOURS)
       IN
       IF mk = "fails" THEN
            /\ last' = Uncaught("roster", team, season, <<>>, saved[key],
                                None, "OSError")
            /\ UNCHANGED <<files, season_stats_cache, saved>>
       ELSE IF Truthy(cached_players) THEN
            /\ last' =
                 IF \A i \in 1..Len(cached_players.val) :
                        PlayerModelOk(cached_players.val[i], NbaPlayerFields)
                 THEN Response("roster", team, season, 200, TRUE,
                               [i \in 1..Len(cached_players.val) |->
                                   PlayerModel(cached_players.val[i], NbaPlayerFields)],
                               <<>>, saved[key], None)
                 ELSE Uncaught("roster", team, season, <<>>, saved[key],
                                None, "ValidationError")
            /\ UNCHANGED <<files, season_stats_cache, saved>>
       ELSE
       LET roster_players == fetch_team_roster(ros)
       IN
       IF roster_not_found(roster_players) THEN
            /\ last' = Response("roster", team, season, 404, FALSE, <<>>,
                                <<"roster">>, saved[key], Some(roster_players))
            /\ UNCHANGED <<files, season_stats_cache, saved>>
       ELSE
       LET memo == season_stats_after(season, st)
           enriched_players == sort_by_ppg_desc(enrich(roster_players, memo[season]))
           file == written_file(files[key], wr, team, season, enriched_players,
                                NbaPlayerFields)
           calls == IF season \in DOMAIN season_stats_cache
                    THEN <<"roster">> ELSE <<"roster", "stats">>
       IN
       IF mk = "fails_at_save" THEN
            /\ season_stats_cache' = memo
            /\ last' = Uncaught("roster", team, season, calls, saved[key],
                                Some(roster_players), "OSError")
            /\ UNCHANGED <<files, saved>>
       ELSE
            /\ season_stats_cache' = memo
            /\ files' = [files EXCEPT ![key] = file]
            /\ saved' = [saved EXCEPT ![key] =
                            IF wr = "ok" THEN [some |-> TRUE, at |-> now,
                                               players |-> enriched_players]
                            ELSE IF wr = "dump_fails" THEN NoSave
                            ELSE @]
            /\ last' = Response("roster", team, season, 200, FALSE, enriched_players,
                                calls, saved[key], Some(roster_players))

----------------------------------------------------------------------------
(* scripts/nfl_api_server.py *)

NFL_CACHE_EXPIRY_HOURS == 168

NFL_TEAMS == {"LV"}
NflTeamInputs == {"LV", "lv", "XXX"}
NflSeasonInputs == {2023, 1999}

TEAM_ALIASES(team) ==
    CASE team = "LAR" -> <<"LA", "LAR", "SL", "STL">>
      [] team = "LV"  -> <<"LV", "OAK">>
      [] team = "LAC" -> <<"LAC", "SD">>
      [] team = "ARI" -> <<"ARI", "ARZ">>
      [] team = "BAL" -> <<"BAL", "BLT">>
      [] team = "CLE" -> <<"CLE", "CLV">>
      [] team = "HOU" -> <<"HOU", "HST">>
      [] OTHER -> <<>>

\* find_team_in_data: the abbreviation the data uses, or None
find_team_in_data(team, available_teams) ==
    IF team \in available_teams THEN Some(team)
    ELSE LET aliases == TEAM_ALIASES(team)
             hits == {i \in 1..Len(aliases) : aliases[i] \in available_teams}
         IN  IF hits = {} THEN None
             ELSE Some(aliases[CHOOSE i \in hits : \A j \in hits : i <= j])

NflPlayerFields == <<"id", "name", "position", "number", "unit">>

get_position_unit(position) ==
    IF position \in {"QB", "RB", "FB", "WR", "TE", "T", "G", "C", "OL", "OT", "OG",
                     "LT", "LG", "RT", "RG"} THEN "Offense"
    ELSE IF position \in {"DE", "DT", "NT", "DL", "LB", "ILB", "OLB", "MLB", "CB", "S",
                          "SS", "FS", "DB", "EDGE"} THEN "Defense"
    ELSE IF position \in {"K", "P", "LS", "KR", "PR"} THEN "Special Teams"
    ELSE "Offense"

unit_order(unit) ==
    CASE unit = "Offense" -> 0 [] unit = "Defense" -> 1 [] unit = "Special Teams" -> 2
      [] OTHER -> 3

\* the strings the football tables hold, in Python's str order
StrOrder == <<"", "Al", "Bo", "CB", "Cy", "K", "QB">>
str_rank(x) == CHOOSE i \in 1..Len(StrOrder) : StrOrder[i] = x

\* a row of the seasonal or weekly roster table
NflRow(pid, name, team, status, position) ==
    [player_id |-> pid, espn_id |-> None, player_name |-> name, full_name |-> None,
     team |-> team, status |-> status, position |-> position,
     depth_chart_position |-> None, jersey_number |-> [kind |-> "nan", v |-> 0]]

NflTableA ==
    << NflRow(Some("p1"), Some("Al"), "LV", "ACT", Some("QB")),
       NflRow(Some("p2"), Some("Bo"), "LV", "ACT", Some("CB")),
       NflRow(Some("p3"), Some("Cy"), "KC", "ACT", Some("K")) >>
NflTableB ==
    << NflRow(Some("p1"), Some("Bo"), "OAK", "CUT", Some("QB")),
       NflRow(Some("p1"), Some("Al"), "OAK", "ACT", Some("K")),
       NflRow(Some("p1"), Some("Al"), "OAK", "ACT", Some("QB")),
       [NflRow(None, Some("Cy"), "OAK", "ACT", None) EXCEPT
           !.espn_id = Some("p1"), !.depth_chart_position = Some("CB"),
           !.jersey_number = [kind |-> "num", v |-> 12]],
       [NflRow(None, None, "OAK", "ACT", None) EXCEPT
           !.full_name = Some("Al"), !.jersey_number = [kind |-> "num", v |-> 0]] >>
NflTableC ==
    << NflRow(Some("p3"), Some("Cy"), "KC", "ACT", Some("K")) >>
NflTableD ==
    << NflRow(Some("p2"), Some("Bo"), "LV", "CUT", None),
       NflRow(Some("p1"), None, "LV", "CUT", Some("QB")) >>
NflTableE ==
    << NflRow(Some("p1"), None, "LV", "ACT", Some("QB")) >>

NflRosterCallOutcomes ==
    {[raises |-> TRUE, seasonal |-> <<>>, weekly |-> <<>>]} \cup
    {[raises |-> FALSE, seasonal |-> t, weekly |-> <<>>] :
        t \in {NflTableA, NflTableB, NflTableC, NflTableD, NflTableE}} \cup
    {[raises |-> FALSE, seasonal |-> <<>>, weekly |-> t] : t \in {<<>>, NflTableB}}

\* df.drop_duplicates(subset=['player_id'], keep='first')
drop_duplicates(df) ==
    LET first == {i \in 1..Len(df) :
                    \A j \in 1..(i - 1) : df[j].player_id # df[i].player_id}
        RECURSIVE pick(_)
        pick(i) == IF i > Len(df) THEN <<>>
                   ELSE IF i \in first THEN <<df[i]>> \o pick(i + 1) ELSE pick(i + 1)
    IN  pick(1)

\* line 362: str(player_id or espn_id or f"{player_name}_{season}")
nfl_player_id(row, season) ==
    IF row.player_id.some THEN <<row.player_id.val>>
    ELSE IF row.espn_id.some THEN <<row.espn_id.val>>
    ELSE <<IF row.player_name.some THEN row.player_name.val ELSE "None", "_", season>>

\* line 369
nfl_player_name(row) ==
    IF row.player_name.some THEN row.player_name.val
    ELSE IF row.full_name.some THEN row.full_name.val
    ELSE "Unknown"

\* line 374
nfl_position(row) ==
    IF row.position.some THEN row.position.val
    ELSE IF row.depth_chart_position.some THEN row.depth_chart_position.val
    ELSE ""

\* line 378: str(int(jersey)) when jersey is a non-zero number, else ""
nfl_number(row) ==
    IF row.jersey_number.kind = "num" /\ row.jersey_number.v # 0
    THEN <<row.jersey_number.v>> ELSE <<>>

\* lines 357-389: the loop over the active rows
RECURSIVE nfl_collect(_, _, _)
nfl_collect(rows, seen_ids, season) ==
    IF rows = <<>> THEN <<>>
    ELSE LET row == Head(rows)
             player_id == nfl_player_id(row, season)
             name == nfl_player_name(row)
             position == nfl_position(row)
         IN  IF player_id \in seen_ids THEN nfl_collect(Tail(rows), seen_ids, season)
             ELSE IF name = "Unknown"
                  THEN nfl_collect(Tail(rows), seen_ids \cup {player_id}, season)
             ELSE <<[id |-> player_id, name |-> name, position |-> position,
                     number |-> nfl_number(row), unit |-> get_position_unit(position)]>>
                  \o nfl_collect(Tail(rows), seen_ids \cup {player_id}, season)

\* the sort key of line 393, compared as Python compares tuples
nfl_key_less(p, q) ==
    \/ unit_order(p.unit) < unit_order(q.unit)
    \/ /\ unit_order(p.unit) = unit_order(q.unit)
       /\ \/ str_rank(p.position) < str_rank(q.position)
          \/ /\ p.position = q.position
             /\ str_rank(p.name) < str_rank(q.name)

\* players.sort(key=...): stable, ascending
RECURSIVE nfl_sort(_)
nfl_sort(players) ==
    IF players = <<>> THEN <<>>
    ELSE LET n == Len(players)
             p == players[n]
             sorted == nfl_sort(SubSeq(players, 1, n - 1))
             k == Cardinality({j \in 1..Len(sorted) : ~nfl_key_less(p, sorted[j])})
         IN  SubSeq(sorted, 1, k) \o <<p>> \o SubSeq(sorted, k + 1, Len(sorted))

\* fetch_team_roster of nfl_api_server.py
nfl_fetch_team_roster(team, season, outcome) ==
    IF ~nfl_data_available \/ outcome.raises THEN <<>>
    ELSE
    LET df == IF outcome.seasonal = <<>> THEN drop_duplicates(outcome.weekly)
              ELSE outcome.seasonal
    IN
    IF df = <<>> THEN <<>>
    ELSE
    LET available == {df[i].team : i \in 1..Len(df)}
        data_team == find_team_in_data(team, available)
    IN
    IF ~data_team.some THEN <<>>
    ELSE
    LET in_team(r) == r.team = data_team.val
        not_cut(r) == r.status # "CUT"
        team_df == SelectSeq(df, in_team)
        kept == SelectSeq(team_df, not_cut)
        active_df == IF kept = <<>> THEN team_df ELSE kept
    IN  nfl_sort(nfl_collect(active_df, {}, season))

NflKeys == {<<t, s>> : t \in NFL_TEAMS, s \in {2023}}

\* GET /nfl/roster/{team}/{season}
nfl_get_roster(team_in, season, ros, wr, mk) ==
    /\ sport = "nfl"
    /\ UNCHANGED <<sport, now, season_stats_cache, nfl_data_available,
                   season_players_cache, schedules_cache, coerced, workers>>
    /\ LET team == upper(team_in)
       IN
       IF team \notin NFL_TEAMS THEN
            /\ last' = Response("roster", team, season, 404, FALSE, <<>>, <<>>, NoSave, None)
            /\ UNCHANGED <<files, saved>>
       ELSE IF season < 2000 \/ season > 2025 THEN
            /\ last' = Response("roster", team, season, 400, FALSE, <<>>, <<>>, NoSave, None)
            /\ UNCHANGED <<files, saved>>
       ELSE
       LET key == <<team, season>>
           cached_players == cached_players_of(files[key], NFL_CACHE_EXPIRY_HOURS)
       IN
       IF mk = "fails" THEN
            /\ last' = Uncaught("roster", team, season, <<>>, saved[key],
                                None, "OSError")
            /\ UNCHANGED <<files, saved>>
       ELSE IF Truthy(cached_players) THEN
            /\ last' =
                 IF \A i \in 1..Len(cached_players.val) :
                        PlayerModelOk(cached_players.val[i], NflPlayerFields)
                 THEN Response("roster", team, season, 200, TRUE,
                               [i \in 1..Len(cached_players.val) |->
                                   PlayerModel(cached_players.val[i], NflPlayerFields)],
                               <<>>, saved[key], None)
                 ELSE Uncaught("roster", team, season, <<>>, saved[key],
                                None, "ValidationError")
            /\ UNCHANGED <<files, saved>>
       ELSE
       LET roster_players == nfl_fetch_team_roster(team, season, ros)
       IN
       IF roster_not_found(roster_players) THEN
            /\ last' = Response("roster", team, season, 404, FALSE, <<>>,
                                IF nfl_data_available THEN <<"roster">> ELSE <<>>,
                                saved[key], Some(roster_players))
            /\ UNCHANGED <<files, saved>>
       ELSE IF mk = "fails_at_save" THEN
            /\ last' = Uncaught("roster", team, season, <<"roster">>, saved[key],
                                Some(roster_players), "OSError")
            /\ UNCHANGED <<files, saved>>
       ELSE
            /\ files' = [files EXCEPT ![key] =
                            written_file(@, wr, team, season, roster_players,
                                         NflPlayerFields)]
            /\ saved' = [saved EXCEPT ![key] =
                            IF wr = "ok" THEN [some |-> TRUE, at |-> now,
                                               players |-> roster_players]
                            ELSE IF wr = "dump_fails" THEN NoSave
                            ELSE @]
            /\ last' = Response("roster", team, season, 200, FALSE, roster_players,
                                <<"roster">>, saved[key], Some(roster_players))

----------------------------------------------------------------------------
(* The clock and the server specification *)

Expiry == IF sport = "nba" THEN NBA_CACHE_EXPIRY_HOURS ELSE NFL_CACHE_EXPIRY_HOURS

\* time passes: a whole expiry window, or one hour
Tick(d) ==
    /\ d \in {1, Expiry}
    /\ d = 1 => now % Expiry < MaxExtra
    /\ now + d <= MaxWindows * Expiry + MaxExtra
    /\ now' = now + d
    /\ UNCHANGED <<sport, files, season_stats_cache, saved, last, nfl_data_available,
                   season_players_cache, schedules_cache, coerced, workers>>

ServerInit ==
    /\ sport \in {"nba", "nfl"}
    /\ nfl_data_available \in (IF sport = "nfl" THEN BOOLEAN ELSE {TRUE})
    /\ now = 0
    /\ files = [k \in (IF sport = "nba" THEN NbaKeys ELSE NflKeys) |-> Absent]
    /\ saved = [k \in (IF sport = "nba" THEN NbaKeys ELSE NflKeys) |-> NoSave]
    /\ season_stats_cache = <<>>
    /\ season_players_cache = <<>> /\ schedules_cache = <<>> /\ coerced = NotCoerced
    /\ workers = NoWorkers
    /\ last = [op |-> "none", team |-> "", season |-> <<>>, at |-> 0, status |-> 0,
               cached |-> FALSE, players |-> <<>>, calls |-> <<>>, before |-> NoSave,
               fetched |-> None, exc |-> "none"]
    /\ era = 0 /\ num_players = 0 /\ runs = 0
    /\ partial_file = [kind |-> "absent"] /\ out_file = [kind |-> "absent"]
    /\ nfl_out_file = [kind |-> "absent"]
    /\ gen = [pc |-> "idle"] /\ upd = [pc |-> "idle"] /\ log = <<>>

\* a provider call or cache write that the request does not make has one outcome
NoCall == [raises |-> TRUE, rows |-> <<>>]
NflNoCall == [raises |-> TRUE, seasonal |-> <<>>, weekly |-> <<>>]

NbaMisses(team_in, season) ==
    /\ sport = "nba"
    /\ upper(team_in) \in NBA_TEAMS
    /\ valid_season_format(season)
    /\ ~Truthy(cached_players_of(files[<<upper(team_in), season>>], NBA_CACHE_EXPIRY_HOURS))

NflMisses(team_in, season) ==
    /\ sport = "nfl"
    /\ upper(team_in) \in NFL_TEAMS
    /\ ~(season < 2000 \/ season > 2025)
    /\ ~Truthy(cached_players_of(files[<<upper(team_in), season>>], NFL_CACHE_EXPIRY_HOURS))

NbaRequest ==
    \E team \in NbaTeamInputs, season \in NbaSeasonInputs :
      \E ros \in (IF NbaMisses(team, season) THEN RosterCallOutcomes ELSE {NoCall}) :
        \E st \in (IF NbaMisses(team, season) /\ fetch_team_roster(ros) # <<>>
                      /\ season \notin DOMAIN season_stats_cache
                   THEN StatsCallOutcomes ELSE {NoCall}),
           wr \in (IF NbaMisses(team, season) /\ fetch_team_roster(ros) # <<>>
                   THEN WriteOutcomes ELSE {"ok"}) :
            get_roster(team, season, ros, st, wr, "ok")

NflRequest ==
    \E team \in NflTeamInputs, season \in NflSeasonInputs :
      \E ros \in (IF NflMisses(team, season) /\ nfl_data_available
                  THEN NflRosterCallOutcomes ELSE {NflNoCall}) :
        \E wr \in (IF NflMisses(team, season)
                      /\ nfl_fetch_team_roster(upper(team), season, ros) # <<>>
                   THEN WriteOutcomes ELSE {"ok"}) :
            nfl_get_roster(team, season, ros, wr, "ok")

TimePasses == \E d \in {1, Expiry} : Tick(d)

ServerNext ==
    \/ NbaRequest /\ UNCHANGED career_vars
    \/ NflRequest /\ UNCHANGED career_vars
    \/ TimePasses /\ UNCHANGED career_vars

vars == <<sport, now, files, season_stats_cache, season_players_cache,
          schedules_cache, coerced, workers, saved, last, nfl_data_available,
          era, num_players, runs, partial_file, out_file,
          nfl_out_file, gen, upd, log>>

ServerSpec == ServerInit /\ [][ServerNext]_vars

----------------------------------------------------------------------------
(* The provider's basketball data, as the career scripts see it.  `era` is the
   last season the provider has data for.  A table cell is a tagged value: a
   number, NaN or None. *)

MaxRuns       == 3    \* runs of the career scripts in one behaviour of the small world
MaxBatchRuns  == 2    \* runs of the generator in one behaviour of the large world
NewSeasons    == 1    \* seasons the provider completes in one behaviour
PoolPlayers   == 2    \* veterans when the updater is studied
BatchPlayers  == 28   \* veterans when the checkpoints are studied

\* generate_nba_careers.SAMPLE_YEARS: of range(1985, 2026, 2), two seasons
SAMPLE_YEARS == <<2021, 2023>>

\* the last season the provider has when the scripts are first run
FirstEra == SAMPLE_YEARS[Len(SAMPLE_YEARS)]
LastEra == FirstEra + NewSeasons

Num(v) == [kind |-> "num", v |-> v]
NaN == [kind |-> "nan", v |-> 0]
NoneVal == [kind |-> "none", v |-> 0]

\* safe_float(val): one decimal, 0.0 for None, NaN and infinities (scores are in tenths)
safe_float(val) == IF val.kind = "num" THEN val.v ELSE 0

\* safe_int(val)
safe_int(val) == IF val.kind = "num" THEN val.v ELSE 0

\* the label the provider gives the season starting in year y ("2024-25"):
\* the year and the two digits after the dash
SeasonId(y) == <<y, (y + 1) % 100>>

\* str comparison of two season labels
label_less(a, b) == a[1] < b[1] \/ (a[1] = b[1] /\ a[2] < b[2])

\* three newcomers of 2024: one productive who played a few games the season
\* before, one with few games, one productive in his first season
Rookie == BatchPlayers + 1
Benchwarmer == BatchPlayers + 2
Debutant == BatchPlayers + 3

Veterans == 1..num_players

PlayerName(pid) == <<"player", pid>>

\* the first season of the player's career log; the productive newcomer played a
\* few games in the season before
FirstSeason(pid) ==
    CASE pid \in {3, Rookie} -> 2023
      [] pid \in {Benchwarmer, Debutant} -> 2024
      [] OTHER -> 2022

\* PTS of a player in a season: player 4 is below 10.0 in 2021, player 3 has a NaN
Pts(pid, y) ==
    CASE pid = Benchwarmer -> Num(30)
      [] pid = 4 /\ y = 2021 -> Num(80)
      [] pid = 3 /\ y = 2024 -> NaN
      [] pid = Rookie -> Num(200)
      [] OTHER -> Num(150)

Gp(pid, y) == IF pid = Benchwarmer THEN Num(10) ELSE IF pid = 1 THEN NoneVal ELSE Num(60)

\* LeagueDashPlayerStats(season): no rows for a season later than the era; the 2025
\* table lists player 1 twice
StatRow(pid, y) ==
    [PLAYER_ID |-> pid, PLAYER_NAME |-> PlayerName(pid), TEAM_ABBREVIATION |-> "AAA",
     GP |-> Gp(pid, y), PTS |-> Pts(pid, y)]

\* the order in which the provider lists the veterans: in a large league
\* those with a short span, a late start or an empty log (2, 3, 5) come last
VeteranAt(i) ==
    IF num_players < 6 THEN i
    ELSE IF i = 1 THEN 1
    ELSE IF i = 2 THEN 4
    ELSE IF i <= num_players - 3 THEN i + 3
    ELSE IF i = num_players - 2 THEN 2
    ELSE IF i = num_players - 1 THEN 3 ELSE 5

\* the veterans, then the three newcomers
Listed(newcomers) ==
    [i \in 1..(num_players + (IF newcomers THEN 3 ELSE 0)) |->
        IF i <= num_players THEN VeteranAt(i)
        ELSE IF i = num_players + 1 THEN Rookie
        ELSE IF i = num_players + 2 THEN Benchwarmer ELSE Debutant]

SeasonTable(y) ==
    IF y > era THEN <<>>
    ELSE LET order == Listed(y >= 2024)
             rows == [i \in 1..Len(order) |-> StatRow(order[i], y)]
         IN  IF y = 2025 THEN rows \o <<StatRow(1, y)>> ELSE rows

\* CommonAllPlayers(is_only_current_season=0): player 2's span is too short
Directory ==
    LET order == Listed(TRUE)
    IN  [i \in 1..Len(order) |->
            LET pid == order[i]
            IN  [PERSON_ID |-> pid,
                 FROM_YEAR |-> IF pid \in {Rookie, Benchwarmer, Debutant} THEN 2024
                               ELSE IF pid = 2 THEN 2022 ELSE 2018,
                 TO_YEAR |-> era,
                 DISPLAY_FIRST_LAST |-> PlayerName(pid)]]

\* PlayerCareerStats(player_id): a row per season and team; player 1 changed teams
\* in 2023 (two team rows and a TOT row); the provider holds nothing for player 5
CareerRow(y, team, pid) ==
    [SEASON_ID |-> SeasonId(y), TEAM_ABBREVIATION |-> team, GP |-> Gp(pid, y),
     PTS |-> Pts(pid, y)]

RECURSIVE CareerRowsFrom(_, _)
CareerRowsFrom(pid, y) ==
    IF y > era THEN <<>>
    ELSE (IF pid = 1 /\ y = FirstEra
          THEN <<CareerRow(y, "AAA", pid), CareerRow(y, "BBB", pid), CareerRow(y, "TOT", pid)>>
          ELSE <<CareerRow(y, "AAA", pid)>>) \o CareerRowsFrom(pid, y + 1)

CareerLog(pid) == IF pid = 5 THEN <<>> ELSE CareerRowsFrom(pid, FirstSeason(pid))

\* CommonPlayerInfo(player_id)
PlayerInfo(pid) ==
    [HEIGHT |-> "6-6", WEIGHT |-> Num(200 + pid), SCHOOL |-> "",
     SEASON_EXP |-> Num(era - FirstSeason(pid)),
     DRAFT_YEAR |-> IF pid = Rookie THEN NoneVal ELSE Num(FirstSeason(pid))]

----------------------------------------------------------------------------
(* scripts/generate_nba_careers.py *)

MIN_PPG == 100          \* 10.0, in tenths
MIN_SEASONS == 5
MIN_FROM_YEAR == 1980
CHECKPOINT_EVERY == 25

\* the dict productive_ids after the sampled tables; `ok[i]` tells whether the
\* call for SAMPLE_YEARS[i] returned (a call that raises skips its season)
productive_ids(ok) ==
    {pid \in Veterans \cup {Rookie, Benchwarmer, Debutant} :
        \E i \in 1..Len(SAMPLE_YEARS) :
            /\ ok[i]
            /\ LET df == SeasonTable(SAMPLE_YEARS[i])
               IN  \E r \in 1..Len(df) :
                      /\ df[r].PLAYER_ID = pid
                      /\ (IF df[r].PTS.kind = "num" THEN df[r].PTS.v ELSE 0) >= MIN_PPG}

\* build_eligible, lines 116-135: the rows of the directory that pass, in order
build_eligible(ok) ==
    LET productive == productive_ids(ok)
        passes(row) ==
            /\ ~(row.TO_YEAR - row.FROM_YEAR < MIN_SEASONS - 1)
            /\ ~(row.TO_YEAR < MIN_FROM_YEAR)
            /\ row.PERSON_ID \in productive
            /\ row.PERSON_ID # 0
        kept == SelectSeq(Directory, passes)
    IN  [i \in 1..Len(kept) |->
            [player_id |-> kept[i].PERSON_ID, player_name |-> kept[i].DISPLAY_FIRST_LAST]]

\* the seasons of a career log in order of first appearance (groupby, sort=False)
RECURSIVE season_ids(_)
season_ids(df) ==
    IF df = <<>> THEN <<>>
    ELSE LET earlier == season_ids(SubSeq(df, 1, Len(df) - 1))
             id == df[Len(df)].SEASON_ID
         IN  IF id \in Range(earlier) THEN earlier ELSE Append(earlier, id)

\* every row of the log as a season of its own (no grouping)
career_seasons_ungrouped(season_df) ==
    [i \in 1..Len(season_df) |->
        [season |-> season_df[i].SEASON_ID, team |-> <<season_df[i].TEAM_ABBREVIATION>>,
         gp |-> safe_int(season_df[i].GP), pts |-> safe_float(season_df[i].PTS)]]

\* fetch_career, lines 152-187: one season row per SEASON_ID.  Of the nine
\* statistics, which are all coerced alike, gp and pts are kept.
career_seasons(season_df) ==
    LET ids == season_ids(season_df)
    IN  [g \in 1..Len(ids) |->
            LET in_group(r) == r.SEASON_ID = ids[g]
                is_tot(r) == r.TEAM_ABBREVIATION = "TOT"
                not_tot(r) == r.TEAM_ABBREVIATION # "TOT"
                group == SelectSeq(season_df, in_group)
                tot_rows == SelectSeq(group, is_tot)
                team_rows == SelectSeq(group, not_tot)
            IN  IF Len(team_rows) <= 1 /\ tot_rows = <<>>
                THEN [season |-> group[1].SEASON_ID,
                      team |-> <<group[1].TEAM_ABBREVIATION>>,
                      gp |-> safe_int(group[1].GP), pts |-> safe_float(group[1].PTS)]
                ELSE LET src == IF tot_rows # <<>> THEN tot_rows[1] ELSE team_rows[1]
                     IN  [season |-> ids[g],
                          team |-> IF team_rows # <<>>
                                   THEN [t \in 1..Len(team_rows) |->
                                            team_rows[t].TEAM_ABBREVIATION]
                                   ELSE <<"???">>,
                          gp |-> safe_int(src.GP), pts |-> safe_float(src.PTS)]]

DefaultBio == [height |-> "", weight |-> 0, school |-> "", exp |-> 0, draft_year |-> 0]

\* fetch_career, lines 193-207; bio_ok: the CommonPlayerInfo call returned
career_bio(pid, bio_ok) ==
    IF ~bio_ok THEN DefaultBio
    ELSE LET irow == PlayerInfo(pid)
         IN  [height |-> irow.HEIGHT, weight |-> safe_int(irow.WEIGHT),
              school |-> irow.SCHOOL, exp |-> safe_int(irow.SEASON_EXP),
              draft_year |-> IF irow.DRAFT_YEAR.kind = "num" /\ irow.DRAFT_YEAR.v # 0
                             THEN irow.DRAFT_YEAR.v ELSE 0]

\* fetch_career: None, or the pool entry; career_ok: the PlayerCareerStats call returned
fetch_career(player_id, player_name, career_ok, bio_ok) ==
    IF ~career_ok THEN None
    ELSE LET season_df == CareerLog(player_id)
         IN  IF season_df = <<>> THEN None
             ELSE LET seasons == career_seasons(season_df)
                  IN  IF Len(seasons) < 2 THEN None
                      ELSE Some([player_id |-> player_id, player_name |-> player_name,
                                 seasons |-> seasons, bio |-> career_bio(player_id, bio_ok)])

CareerFields == <<"player_id", "player_name", "seasons", "bio">>

\* json.load of a pool file: the list of entries
json_load_entries(file) ==
    [i \in 1..Len(file.data) |->
        [f \in Range(CareerFields) |-> dict_get(file.data[i], f, <<>>)]]

\* json.dump(careers, f)
json_dump_entries(careers) ==
    [kind |-> "json", data |-> json_dump_players(careers, CareerFields)]

EntryIds(careers) == {careers[i].player_id : i \in 1..Len(careers)}

\* the list that takes the role of `remaining` when nothing is filtered out
remaining_unfiltered(eligible, done_ids) == eligible

\* main, line 241
remaining_of(eligible, done_ids) ==
    LET todo(p) == p.player_id \notin done_ids
    IN  SelectSeq(eligible, todo)

\* the partial progress loaded with the careers left empty
load_partial_ids_only(resume, partial) ==
    IF resume /\ partial.kind # "absent"
    THEN [careers |-> <<>>, done_ids |-> EntryIds(json_load_entries(partial))]
    ELSE [careers |-> <<>>, done_ids |-> {}]

\* main, lines 228-235 (for a readable partial file)
load_partial(resume, partial) ==
    IF resume /\ partial.kind # "absent"
    THEN [careers |-> json_load_entries(partial),
          done_ids |-> EntryIds(json_load_entries(partial))]
    ELSE [careers |-> <<>>, done_ids |-> {}]

Idle == [pc |-> "idle"]

\* the runs one behaviour may start
RunLimit == IF num_players = BatchPlayers THEN MaxBatchRuns ELSE MaxRuns

\* a killed generator leaves no process; the candidates whose career call had
\* returned and the entries it had obtained are remembered for the properties
NoProcess == gen.pc \in {"idle", "killed", "crashed"} /\ upd.pc = "idle"

\* the generator ended with an uncaught exception: of json.load, or of a provider call
Crashed(exc) == [pc |-> "crashed", exc |-> exc]

Killed(fetched, results) == [pc |-> "killed", fetched |-> fetched, results |-> results]

FetchedBefore == IF gen.pc = "killed" THEN gen.fetched ELSE {}
ResultsBefore == IF gen.pc = "killed" THEN gen.results ELSE {}

\* the calls that can raise: the career logs of players 1 and 2, the personal data
\* of the productive newcomer, the second sampled table (in the large world
\* also both sampled tables), the directory
FlakyCareer == {1, 2}
FlakyBio == {Rookie}
CareerCallOutcomes(pid) == IF pid \in FlakyCareer THEN BOOLEAN ELSE {TRUE}
BioCallOutcomes(pid) == IF pid \in FlakyBio THEN BOOLEAN ELSE {TRUE}
SampleCallOutcomes ==
    IF num_players = BatchPlayers
    THEN {<<TRUE, TRUE>>, <<TRUE, FALSE>>, <<FALSE, FALSE>>}
    ELSE {<<TRUE, TRUE>>, <<TRUE, FALSE>>}

\* a run that completed is appended to the log, which keeps the last two
Logged(entry) == IF Len(log) < 2 THEN Append(log, entry) ELSE <<log[2], entry>>

\* main, lines 223-245: start of a run.  A partial file that cannot be decoded, or
\* a directory call that raises, ends the run with the exception.
main_start(resume, ok, dir_ok) ==
    /\ NoProcess
    /\ sport = "nba"
    /\ runs < RunLimit
    /\ runs' = runs + 1
    /\ IF resume /\ partial_file.kind = "corrupt" THEN gen' = Crashed("json.load")
       ELSE IF ~dir_ok THEN gen' = Crashed("CommonAllPlayers")
       ELSE LET loaded == load_partial(resume, partial_file)
                eligible == build_eligible(ok)
            IN  gen' = [pc |-> "fetch",
                        \* line 231: --resume was given and the partial file exists
                        resume |-> resume /\ partial_file.kind # "absent",
                        partial_at_start |-> partial_file,
                        fetched_before |-> FetchedBefore,
                        results_before |-> ResultsBefore,
                        done_ids |-> loaded.done_ids,
                        careers |-> loaded.careers,
                        eligible |-> eligible,
                        remaining |-> remaining_of(eligible, loaded.done_ids),
                        i |-> 0, fetched |-> <<>>, completed |-> {}, obtained |-> {}]
    /\ UNCHANGED <<era, num_players, partial_file, out_file,
                   nfl_out_file, upd, log>>

\* main, lines 247-265: one candidate, with the checkpoint after every 25th
main_fetch_career(career_ok, bio_ok) ==
    /\ gen.pc = "fetch"
    /\ gen.i < Len(gen.remaining)
    /\ LET player == gen.remaining[gen.i + 1]
           result == fetch_career(player.player_id, player.player_name, career_ok, bio_ok)
           careers == IF result.some THEN Append(gen.careers, result.val) ELSE gen.careers
       IN  /\ career_ok \in CareerCallOutcomes(player.player_id)
           /\ bio_ok \in BioCallOutcomes(player.player_id)
           /\ gen' = [gen EXCEPT !.careers = careers, !.i = gen.i + 1,
                                 !.fetched = Append(@, player.player_id),
                                 !.completed = IF career_ok THEN @ \cup {player.player_id}
                                               ELSE @,
                                 !.obtained = IF result.some THEN @ \cup {result.val} ELSE @]
           /\ partial_file' = IF (gen.i + 1) % CHECKPOINT_EVERY = 0
                              THEN json_dump_entries(careers) ELSE partial_file
    /\ UNCHANGED <<era, num_players, runs, out_file, nfl_out_file,
                   upd, log>>

\* the final write with the entries of this run only, those loaded from the
\* partial file left out
main_final_write_new_only ==
    /\ gen.pc = "fetch"
    /\ gen.i = Len(gen.remaining)
    /\ LET loaded == IF gen.resume THEN Len(json_load_entries(gen.partial_at_start)) ELSE 0
       IN  out_file' = json_dump_entries(SubSeq(gen.careers, loaded + 1, Len(gen.careers)))
    /\ partial_file' = Absent
    /\ gen' = Idle
    /\ log' = Logged([prog |-> "generate", resume |-> gen.resume,
                      partial_at_start |-> gen.partial_at_start,
                      fetched_before |-> gen.fetched_before,
                      results_before |-> gen.results_before,
                      fetched |-> gen.fetched, pool |-> gen.careers,
                      remaining |-> gen.remaining, completed |-> gen.completed])
    /\ UNCHANGED <<era, num_players, runs, nfl_out_file, upd>>

\* main, lines 267-273: the final write and the removal of the partial file
main_final_write ==
    /\ gen.pc = "fetch"
    /\ gen.i = Len(gen.remaining)
    /\ out_file' = json_dump_entries(gen.careers)
    /\ partial_file' = Absent
    /\ gen' = Idle
    /\ log' = Logged([prog |-> "generate", resume |-> gen.resume,
                      partial_at_start |-> gen.partial_at_start,
                      fetched_before |-> gen.fetched_before,
                      results_before |-> gen.results_before,
                      fetched |-> gen.fetched, pool |-> gen.careers,
                      remaining |-> gen.remaining, completed |-> gen.completed])
    /\ UNCHANGED <<era, num_players, runs, nfl_out_file, upd>>

\* Ctrl-C between two steps of the generator
gen_interrupted ==
    /\ gen.pc = "fetch"
    /\ gen' = Killed(gen.completed, gen.obtained)
    /\ UNCHANGED <<era, num_players, runs, partial_file, out_file, nfl_out_file,
                   upd, log>>

\* Ctrl-C while the checkpoint after the latest candidate was being written: the
\* partial file is left truncated
gen_interrupted_in_checkpoint ==
    /\ gen.pc = "fetch"
    /\ gen.i > 0
    /\ gen.i % CHECKPOINT_EVERY = 0
    /\ partial_file' = Corrupt
    /\ gen' = Killed(gen.completed, gen.obtained)
    /\ UNCHANGED <<era, num_players, runs, out_file, nfl_out_file, upd, log>>

----------------------------------------------------------------------------
(* scripts/update_nba_careers.py *)

UPDATE_MIN_PPG == 100   \* MIN_PPG, 10.0 in tenths
MIN_GP == 20

\* format_season(year): f"{year}-{str(year + 1)[-2:]}"
format_season(year) == <<year, (year + 1) % 100>>

\* build_season_row(row, season); of the nine statistics gp and pts are kept
build_season_row(row, season) ==
    [season |-> season, team |-> <<row.TEAM_ABBREVIATION>>,
     gp |-> safe_int(row.GP), pts |-> safe_float(row.PTS)]

\* fetch_full_career without `if len(seasons) < 2: return None`
fetch_full_career_any_length(player_id, player_name, career_ok, bio_ok) ==
    IF ~career_ok THEN None
    ELSE LET season_df == CareerLog(player_id)
         IN  IF season_df = <<>> THEN None
             ELSE Some([player_id |-> player_id, player_name |-> player_name,
                        seasons |-> career_seasons(season_df),
                        bio |-> career_bio(player_id, bio_ok)])

\* fetch_full_career(player_id, player_name): the same steps as fetch_career
fetch_full_career(player_id, player_name, career_ok, bio_ok) ==
    IF ~career_ok THEN None
    ELSE LET season_df == CareerLog(player_id)
         IN  IF season_df = <<>> THEN None
             ELSE LET seasons == career_seasons(season_df)
                  IN  IF Len(seasons) < 2 THEN None
                      ELSE Some([player_id |-> player_id, player_name |-> player_name,
                                 seasons |-> seasons, bio |-> career_bio(player_id, bio_ok)])

\* careers_by_id[pid] = entry: a dict keeps the place of a key it already has
dict_put(d, entry) ==
    IF \E k \in 1..Len(d) : d[k].player_id = entry.player_id
    THEN [k \in 1..Len(d) |-> IF d[k].player_id = entry.player_id THEN entry ELSE d[k]]
    ELSE Append(d, entry)

\* the pool loaded with the entries of fewer than MIN_SEASONS seasons left out
by_id_revalidated(careers) ==
    LET long_enough(c) == Len(c.seasons) >= MIN_SEASONS
    IN  SelectSeq(careers, long_enough)

\* {c["player_id"]: c for c in careers}
RECURSIVE by_id(_)
by_id(careers) ==
    IF careers = <<>> THEN <<>>
    ELSE dict_put(by_id(SubSeq(careers, 1, Len(careers) - 1)), careers[Len(careers)])

\* sorted(args.years)
RECURSIVE sorted(_)
sorted(years) ==
    IF years = <<>> THEN <<>>
    ELSE LET m == CHOOSE k \in 1..Len(years) : \A o \in 1..Len(years) : years[k] <= years[o]
         IN  <<years[m]>> \o sorted([k \in 1..(Len(years) - 1) |->
                                        IF k < m THEN years[k] ELSE years[k + 1]])

\* the sort with reverse=True: by the label, descending
RECURSIVE sort_by_season_reversed(_)
sort_by_season_reversed(seasons) ==
    IF seasons = <<>> THEN <<>>
    ELSE LET init == sort_by_season_reversed(SubSeq(seasons, 1, Len(seasons) - 1))
             x == seasons[Len(seasons)]
             keep(r) == ~label_less(r.season, x.season)
             after(r) == label_less(r.season, x.season)
         IN  SelectSeq(init, keep) \o <<x>> \o SelectSeq(init, after)

\* seasons.sort(key=lambda s: s["season"]): stable, by the label
RECURSIVE sort_by_season(_)
sort_by_season(seasons) ==
    IF seasons = <<>> THEN <<>>
    ELSE LET init == sort_by_season(SubSeq(seasons, 1, Len(seasons) - 1))
             x == seasons[Len(seasons)]
             keep(r) == ~label_less(x.season, r.season)
             after(r) == label_less(x.season, r.season)
         IN  SelectSeq(init, keep) \o <<x>> \o SelectSeq(init, after)

\* the test of line 222 when the season is never found among the existing ones
has_season_never(entry, season) == FALSE

\* season in {s["season"] for s in careers_by_id[pid]["seasons"]}
has_season(entry, season) ==
    \E k \in 1..Len(entry.seasons) : entry.seasons[k].season = season

\* main, lines 209-231: the rows of the season's table, one after the other
RECURSIVE scan_rows(_, _, _)
scan_rows(sdf, season, st) ==
    IF sdf = <<>> THEN st
    ELSE LET row == sdf[1]
             pid == row.PLAYER_ID
             gp == safe_int(row.GP)
             pts == safe_float(row.PTS)
             rest == SubSeq(sdf, 2, Len(sdf))
             at == {k \in 1..Len(st.careers_by_id) : st.careers_by_id[k].player_id = pid}
         IN  IF at # {}
             THEN LET k == CHOOSE x \in at : TRUE
                      entry == st.careers_by_id[k]
                  IN  IF ~has_season(entry, season)
                      THEN scan_rows(rest, season,
                               [st EXCEPT
                                  !.careers_by_id[k].seasons =
                                      sort_by_season(Append(@, build_season_row(row, season))),
                                  !.updated = @ + 1,
                                  !.updated_ids = @ \cup {pid}])
                      ELSE scan_rows(rest, season,
                               [st EXCEPT !.already_present = @ + 1,
                                          !.already_ids = @ \cup {pid}])
             ELSE IF gp >= MIN_GP /\ pts >= UPDATE_MIN_PPG
                  THEN scan_rows(rest, season,
                           [st EXCEPT !.new_candidates =
                                Append(@, [player_id |-> pid, player_name |-> row.PLAYER_NAME])])
                  ELSE scan_rows(rest, season, st)

\* main, lines 166-183: the arguments and the pool are read
update_start(years) ==
    /\ NoProcess
    /\ sport = "nba"
    /\ runs < RunLimit
    /\ runs' = runs + 1
    /\ IF out_file.kind # "json"
       THEN upd' = Idle
       ELSE LET careers == json_load_entries(out_file)
            IN  upd' = [pc |-> "season", args |-> years, years |-> sorted(years),
                        before |-> careers, careers_by_id |-> by_id(careers),
                        total_updated |-> 0, total_added |-> 0,
                        updated |-> 0, already_present |-> 0, new_candidates |-> <<>>, j |-> 0,
                        seasons_done |-> <<>>, added_ids |-> {}, at_era |-> era,
                        tried |-> <<>>]
    /\ UNCHANGED <<era, num_players, partial_file, out_file,
                   nfl_out_file, gen, log>>

\* update_season with a write of the pool file after every season
update_season_saving(table_ok) ==
    /\ upd.pc = "season"
    /\ upd.years # <<>>
    /\ LET year == Head(upd.years)
           season == format_season(year)
           st == scan_rows(SeasonTable(year), season,
                           [careers_by_id |-> upd.careers_by_id, updated |-> 0,
                            already_present |-> 0, new_candidates |-> <<>>,
                            updated_ids |-> {}, already_ids |-> {}])
           sdf == SeasonTable(year)
           done == Append(upd.seasons_done,
                          [season |-> season, fetched |-> table_ok,
                           table_ids |-> IF table_ok
                                         THEN {sdf[k].PLAYER_ID : k \in 1..Len(sdf)} ELSE {},
                           updated |-> IF table_ok THEN st.updated ELSE 0,
                           already_present |-> IF table_ok THEN st.already_present ELSE 0,
                           updated_ids |-> IF table_ok THEN st.updated_ids ELSE {},
                           already_ids |-> IF table_ok THEN st.already_ids ELSE {}])
       IN  IF ~table_ok
           THEN upd' = [upd EXCEPT !.years = Tail(@), !.seasons_done = done]
           ELSE upd' = [upd EXCEPT
                          !.careers_by_id = st.careers_by_id,
                          !.updated = st.updated,
                          !.already_present = st.already_present,
                          !.new_candidates = st.new_candidates,
                          !.total_updated = @ + st.updated,
                          !.seasons_done = done,
                          !.j = 0,
                          !.tried = <<>>,
                          !.pc = IF st.new_candidates = <<>> THEN "season" ELSE "new",
                          !.years = IF st.new_candidates = <<>> THEN Tail(@) ELSE @]
    /\ out_file' = json_dump_entries(upd'.careers_by_id)
    /\ UNCHANGED <<era, num_players, runs, partial_file,
                   nfl_out_file, gen, log>>

\* main, lines 185-234: the table of the next season is fetched and its rows are
\* read; a call that raises skips the season
update_season(table_ok) ==
    /\ upd.pc = "season"
    /\ upd.years # <<>>
    /\ LET year == Head(upd.years)
           season == format_season(year)
           st == scan_rows(SeasonTable(year), season,
                           [careers_by_id |-> upd.careers_by_id, updated |-> 0,
                            already_present |-> 0, new_candidates |-> <<>>,
                            updated_ids |-> {}, already_ids |-> {}])
           sdf == SeasonTable(year)
           done == Append(upd.seasons_done,
                          [season |-> season, fetched |-> table_ok,
                           table_ids |-> IF table_ok
                                         THEN {sdf[k].PLAYER_ID : k \in 1..Len(sdf)} ELSE {},
                           updated |-> IF table_ok THEN st.updated ELSE 0,
                           already_present |-> IF table_ok THEN st.already_present ELSE 0,
                           updated_ids |-> IF table_ok THEN st.updated_ids ELSE {},
                           already_ids |-> IF table_ok THEN st.already_ids ELSE {}])
       IN  IF ~table_ok
           THEN upd' = [upd EXCEPT !.years = Tail(@), !.seasons_done = done]
           ELSE upd' = [upd EXCEPT
                          !.careers_by_id = st.careers_by_id,
                          !.updated = st.updated,
                          !.already_present = st.already_present,
                          !.new_candidates = st.new_candidates,
                          !.total_updated = @ + st.updated,
                          !.seasons_done = done,
                          !.j = 0,
                          !.tried = <<>>,
                          !.pc = IF st.new_candidates = <<>> THEN "season" ELSE "new",
                          !.years = IF st.new_candidates = <<>> THEN Tail(@) ELSE @]
    /\ UNCHANGED <<era, num_players, runs, partial_file, out_file,
                   nfl_out_file, gen, log>>

\* the loop over the new candidates ended by the first career call that raises
update_fetch_new_aborting(career_ok, bio_ok) ==
    /\ upd.pc = "new"
    /\ LET player == upd.new_candidates[upd.j + 1]
           result == fetch_full_career(player.player_id, player.player_name,
                                       career_ok, bio_ok)
           last_one == upd.j + 1 = Len(upd.new_candidates) \/ ~career_ok
       IN  /\ career_ok \in CareerCallOutcomes(player.player_id)
           /\ bio_ok \in BioCallOutcomes(player.player_id)
           /\ upd' = [upd EXCEPT
                        !.careers_by_id = IF result.some THEN dict_put(@, result.val) ELSE @,
                        !.total_added = IF result.some THEN @ + 1 ELSE @,
                        !.added_ids = IF result.some THEN @ \cup {player.player_id} ELSE @,
                        !.tried = Append(@, [player_id |-> player.player_id,
                                             raised |-> ~career_ok]),
                        !.j = IF ~career_ok THEN Len(upd.new_candidates) ELSE @ + 1,
                        !.pc = IF last_one THEN "season" ELSE "new",
                        !.years = IF last_one THEN Tail(@) ELSE @]
    /\ UNCHANGED <<era, num_players, runs, partial_file, out_file,
                   nfl_out_file, gen, log>>

\* main, lines 236-246: the full career of one new candidate
update_fetch_new(career_ok, bio_ok) ==
    /\ upd.pc = "new"
    /\ LET player == upd.new_candidates[upd.j + 1]
           result == fetch_full_career(player.player_id, player.player_name,
                                       career_ok, bio_ok)
           last_one == upd.j + 1 = Len(upd.new_candidates)
       IN  /\ career_ok \in CareerCallOutcomes(player.player_id)
           /\ bio_ok \in BioCallOutcomes(player.player_id)
           /\ upd' = [upd EXCEPT
                        !.careers_by_id = IF result.some THEN dict_put(@, result.val) ELSE @,
                        !.total_added = IF result.some THEN @ + 1 ELSE @,
                        !.added_ids = IF result.some THEN @ \cup {player.player_id} ELSE @,
                        !.tried = Append(@, [player_id |-> player.player_id,
                                             raised |-> ~career_ok]),
                        !.j = @ + 1,
                        !.pc = IF last_one THEN "season" ELSE "new",
                        !.years = IF last_one THEN Tail(@) ELSE @]
    /\ UNCHANGED <<era, num_players, runs, partial_file, out_file,
                   nfl_out_file, gen, log>>

\* main, lines 250-253: the pool is written
update_save ==
    /\ upd.pc = "season"
    /\ upd.years = <<>>
    /\ out_file' = json_dump_entries(upd.careers_by_id)
    /\ upd' = Idle
    /\ log' = Logged([prog |-> "update", args |-> upd.args, before |-> upd.before,
                      pool |-> upd.careers_by_id, seasons_done |-> upd.seasons_done,
                      total_updated |-> upd.total_updated, total_added |-> upd.total_added,
                      added_ids |-> upd.added_ids, at_era |-> upd.at_era])
    /\ UNCHANGED <<era, num_players, runs, partial_file,
                   nfl_out_file, gen>>

\* Ctrl-C between two steps of the updater
upd_interrupted ==
    /\ upd.pc # "idle"
    /\ upd' = Idle
    /\ UNCHANGED <<era, num_players, runs, partial_file, out_file, nfl_out_file,
                   gen, log>>

----------------------------------------------------------------------------
(* scripts/generate_nfl_careers.py *)

NFL_MIN_RUSH_YDS == 1000
NFL_MIN_REC_YDS == 1000
NFL_MIN_PASS_YDS == 3000
NFL_MIN_SEASONS == 5
CAREER_POSITIONS == {"QB", "RB", "WR", "TE"}

RosterRow(pid, season, position, name, team) ==
    [player_id |-> pid, season |-> season, position |-> position, player_name |-> name,
     team |-> team, weight |-> Num(220)]

StatsRow(pid, season, rush, rec, pass) ==
    [player_id |-> pid, season |-> season, games |-> Num(16), recent_team |-> "KC",
     rushing_yards |-> rush, receiving_yards |-> rec, passing_yards |-> pass]

\* import_seasonal_rosters(YEARS): a row per player and season from first to last
RosterSeasons(pid, position, name, first, final) ==
    [k \in 1..(final - first + 1) |-> RosterRow(pid, first + k - 1, position, name, "KC")]

\* a back with five roster seasons and statistics in each; a quarterback with four
NflWorldRegulars ==
    [roster |-> RosterSeasons("b1", "RB", "Back One", 2015, 2019)
                \o RosterSeasons("q1", "QB", "Quarter One", 2016, 2019),
     stats |-> [k \in 1..5 |-> StatsRow("b1", 2014 + k, Num(300), Num(50), NaN)]
               \o <<StatsRow("q1", 2016, NaN, NaN, Num(3500))>>]

\* a back with five roster seasons (one listed twice) and statistics in 2017 only
NflWorldOneStatSeason ==
    [roster |-> RosterSeasons("b2", "RB", "Back Two", 2015, 2019)
                \o <<RosterRow("b2", 2016, "RB", "Back Two", "DEN")>>,
     stats |-> <<StatsRow("b2", 2017, Num(1200), Num(100), NaN)>>]

\* a receiver below every threshold, a kicker, an end without statistics, and a
\* quarterback whose latest roster row has no name
NflWorldSkipped ==
    [roster |-> RosterSeasons("w1", "WR", "Wide One", 2015, 2019)
                \o RosterSeasons("k1", "K", "Kicker One", 2015, 2019)
                \o RosterSeasons("t1", "TE", "Tight One", 2015, 2019)
                \o RosterSeasons("q2", "QB", "", 2015, 2019),
     stats |-> <<StatsRow("w1", 2015, NaN, Num(400), NaN),
                 StatsRow("w1", 2016, NaN, Num(400), NaN),
                 StatsRow("k1", 2015, NaN, NaN, NaN),
                 StatsRow("q2", 2015, Num(10), NaN, Num(4000)),
                 StatsRow("q2", 2016, Num(10), NaN, Num(4000))>>]

NflWorldEmpty == [roster |-> <<>>, stats |-> <<>>]

NflCareerWorlds ==
    {NflWorldRegulars, NflWorldOneStatSeason, NflWorldSkipped, NflWorldEmpty}

\* drop_duplicates(subset=["player_id", "season"], keep="first")
RECURSIVE roster_drop_duplicates(_)
roster_drop_duplicates(df) ==
    IF df = <<>> THEN <<>>
    ELSE LET init == roster_drop_duplicates(SubSeq(df, 1, Len(df) - 1))
             x == df[Len(df)]
         IN  IF \E k \in 1..Len(init) :
                    init[k].player_id = x.player_id /\ init[k].season = x.season
             THEN init ELSE Append(init, x)

\* roster_df["player_id"].unique(): in order of first appearance
RECURSIVE unique_pids(_)
unique_pids(df) ==
    IF df = <<>> THEN <<>>
    ELSE LET init == unique_pids(SubSeq(df, 1, Len(df) - 1))
         IN  IF df[Len(df)].player_id \in Range(init) THEN init
             ELSE Append(init, df[Len(df)].player_id)

\* sort_values("season")
RECURSIVE sort_values_season(_)
sort_values_season(df) ==
    IF df = <<>> THEN <<>>
    ELSE LET init == sort_values_season(SubSeq(df, 1, Len(df) - 1))
             x == df[Len(df)]
             keep(r) == r.season <= x.season
             after(r) == r.season > x.season
         IN  SelectSeq(init, keep) \o <<x>> \o SelectSeq(init, after)

\* col_sum(df, col), for the column taken out as a sequence of cells
RECURSIVE col_sum(_)
col_sum(cells) ==
    IF cells = <<>> THEN 0
    ELSE (IF cells[1].kind = "num" THEN cells[1].v ELSE 0) + col_sum(Tail(cells))

\* main, lines 94-210: the entry of one player, or None when the player is skipped.
\* Of the statistics of a season the yards of the position are kept, of the
\* personal data the weight.
nfl_career_of(pid, roster_df, stats_df) ==
    LET mine(r) == r.player_id = pid
        roster_group == sort_values_season(SelectSeq(roster_df, mine))
        listed(r) == r.position \in CAREER_POSITIONS
        positions == SelectSeq(roster_group, listed)
        player_stats == sort_values_season(SelectSeq(stats_df, mine))
        rush_yds == col_sum([k \in 1..Len(player_stats) |-> player_stats[k].rushing_yards])
        rec_yds == col_sum([k \in 1..Len(player_stats) |-> player_stats[k].receiving_yards])
        pass_yds == col_sum([k \in 1..Len(player_stats) |-> player_stats[k].passing_yards])
    IN  IF Len(roster_group) < NFL_MIN_SEASONS THEN None
        ELSE IF positions = <<>> THEN None
        ELSE IF player_stats = <<>> THEN None
        ELSE IF rush_yds < NFL_MIN_RUSH_YDS /\ rec_yds < NFL_MIN_REC_YDS
                /\ pass_yds < NFL_MIN_PASS_YDS THEN None
        ELSE LET player_pos == positions[1].position
                 latest_roster == roster_group[Len(roster_group)]
                 seasons ==
                    [k \in 1..Len(player_stats) |->
                        LET row == player_stats[k]
                            same(r) == r.season = row.season
                            rrows == SelectSeq(roster_group, same)
                        IN  [season |-> row.season,
                             team |-> IF rrows # <<>> THEN rrows[Len(rrows)].team
                                      ELSE row.recent_team,
                             gp |-> safe_int(row.games),
                             passing_yards |-> IF player_pos = "QB"
                                               THEN safe_int(row.passing_yards) ELSE 0,
                             rushing_yards |-> IF player_pos \in {"QB", "RB"}
                                               THEN safe_int(row.rushing_yards) ELSE 0,
                             receiving_yards |-> IF player_pos # "QB"
                                                 THEN safe_int(row.receiving_yards) ELSE 0]]
             IN  IF latest_roster.player_name = "" THEN None
                 ELSE Some([player_id |-> pid, player_name |-> latest_roster.player_name,
                            position |-> player_pos, seasons |-> seasons,
                            bio |-> [weight |-> safe_int(latest_roster.weight)]])

RECURSIVE nfl_careers(_, _, _)
nfl_careers(pids, roster_df, stats_df) ==
    IF pids = <<>> THEN <<>>
    ELSE LET c == nfl_career_of(pids[1], roster_df, stats_df)
         IN  (IF c.some THEN <<c.val>> ELSE <<>>)
             \o nfl_careers(Tail(pids), roster_df, stats_df)

NflCareerFields == <<"player_id", "player_name", "position", "seasons", "bio">>

\* main of generate_nfl_careers.py: no file is written when a table is empty
nfl_main(world) ==
    /\ NoProcess
    /\ sport = "nfl"
    /\ runs < RunLimit
    /\ runs' = runs + 1
    /\ IF world.roster = <<>> \/ world.stats = <<>>
       THEN UNCHANGED nfl_out_file
       ELSE LET roster_df == roster_drop_duplicates(world.roster)
            IN  nfl_out_file' =
                    [kind |-> "json",
                     data |-> json_dump_players(
                                  nfl_careers(unique_pids(roster_df), roster_df, world.stats),
                                  NflCareerFields)]
    /\ UNCHANGED <<era, num_players, partial_file, out_file, gen, upd, log>>

\* the provider completes a season
new_season ==
    /\ NoProcess
    /\ sport = "nba"
    /\ era < LastEra
    /\ era' = era + 1
    /\ UNCHANGED <<num_players, runs, partial_file, out_file,
                   nfl_out_file, gen, upd, log>>

CareerInit(n, sports) ==
    /\ era = FirstEra
    /\ num_players = n
    /\ runs = 0
    /\ partial_file = Absent /\ out_file = Absent /\ nfl_out_file = Absent
    /\ gen = Idle /\ upd = Idle
    /\ log = <<>>
    /\ sport \in sports /\ now = 0 /\ files = <<>> /\ saved = <<>>
    /\ season_stats_cache = <<>> /\ nfl_data_available = FALSE
    /\ season_players_cache = <<>> /\ schedules_cache = <<>> /\ coerced = NotCoerced
    /\ workers = NoWorkers
    /\ last = [op |-> "none"]

BatchInit == CareerInit(BatchPlayers, {"nba"})

GenStarts ==
    \E resume \in BOOLEAN, ok \in SampleCallOutcomes, dir_ok \in BOOLEAN :
        main_start(resume, ok, dir_ok)

GenFetches == \E career_ok \in BOOLEAN, bio_ok \in BOOLEAN : main_fetch_career(career_ok, bio_ok)

server_vars == <<sport, now, files, season_stats_cache, season_players_cache,
                 schedules_cache, coerced, workers, saved, last, nfl_data_available>>

BatchNext ==
    \/ GenStarts /\ UNCHANGED server_vars
    \/ GenFetches /\ UNCHANGED server_vars
    \/ main_final_write /\ UNCHANGED server_vars
    \/ gen_interrupted /\ UNCHANGED server_vars
    \/ gen_interrupted_in_checkpoint /\ UNCHANGED server_vars

BatchSpec == BatchInit /\ [][BatchNext]_vars

PoolInit == CareerInit(PoolPlayers, {"nba", "nfl"})

YearArgs == {<<FirstEra + 1>>, <<FirstEra + 2, FirstEra + 1>>}

UpdStarts == \E years \in YearArgs : update_start(years)

UpdSeasons == \E table_ok \in BOOLEAN : update_season(table_ok)

UpdFetches == \E career_ok \in BOOLEAN, bio_ok \in BOOLEAN : update_fetch_new(career_ok, bio_ok)

NflGenerates == \E world \in NflCareerWorlds : nfl_main(world)

PoolNext ==
    \/ GenStarts /\ UNCHANGED server_vars
    \/ GenFetches /\ UNCHANGED server_vars
    \/ main_final_write /\ UNCHANGED server_vars
    \/ gen_interrupted /\ UNCHANGED server_vars
    \/ UpdStarts /\ UNCHANGED server_vars
    \/ UpdSeasons /\ UNCHANGED server_vars
    \/ UpdFetches /\ UNCHANGED server_vars
    \/ update_save /\ UNCHANGED server_vars
    \/ upd_interrupted /\ UNCHANGED server_vars
    \/ new_season /\ UNCHANGED server_vars
    \/ NflGenerates /\ UNCHANGED server_vars

PoolSpec == PoolInit /\ [][PoolNext]_vars

----------------------------------------------------------------------------
(* scripts/api_server.py: GET /players/{season} *)

SeasonPlayerFields == <<"id", "name">>

\* the file get_season_players_cache_path names
PlayersKey(season) == <<"season_players", season>>
PlayersKeys == {PlayersKey(s) : s \in NbaSeasonInputs}

\* tables of LeagueDashPlayerStats as fetch_all_season_players reads them; the
\* second one repeats a player
SeasonStatTables ==
    { <<>>,
      << [PLAYER_ID |-> 2, PLAYER_NAME |-> "Bo"], [PLAYER_ID |-> 1, PLAYER_NAME |-> "Al"],
         [PLAYER_ID |-> 2, PLAYER_NAME |-> "Bo"] >> }

\* tables of CommonAllPlayers: one player of the season, one whose career ended
\* before it, one without an id
AllPlayersTables ==
    { <<>>,
      << [PERSON_ID |-> 3, DISPLAY_FIRST_LAST |-> "Cy", FROM_YEAR |-> 2020, TO_YEAR |-> 2024],
         [PERSON_ID |-> 2, DISPLAY_FIRST_LAST |-> "Bo", FROM_YEAR |-> 2010, TO_YEAR |-> 2015],
         [PERSON_ID |-> 0, DISPLAY_FIRST_LAST |-> "Al", FROM_YEAR |-> 2020, TO_YEAR |-> 2024] >> }

SeasonPlayersCallOutcomes ==
    [stats : {[raises |-> TRUE, rows |-> <<>>]} \cup
             {[raises |-> FALSE, rows |-> t] : t \in SeasonStatTables},
     all   : {[raises |-> TRUE, rows |-> <<>>]} \cup
             {[raises |-> FALSE, rows |-> t] : t \in AllPlayersTables}]

digit(c) ==
    CASE c = "0" -> 0 [] c = "1" -> 1 [] c = "2" -> 2 [] c = "3" -> 3 [] c = "4" -> 4
      [] c = "5" -> 5 [] c = "6" -> 6 [] c = "7" -> 7 [] c = "8" -> 8 [] c = "9" -> 9

\* int(season[:4])
season_year(season) ==
    digit(season[1]) * 1000 + digit(season[2]) * 100 + digit(season[3]) * 10
        + digit(season[4])

\* lines 319-325: the first dict of every id
unique_players(players) ==
    LET first(i) == \A j \in 1..(i - 1) : players[j].id # players[i].id
        RECURSIVE pick(_)
        pick(i) == IF i > Len(players) THEN <<>>
                   ELSE IF first(i) THEN <<players[i]>> \o pick(i + 1) ELSE pick(i + 1)
    IN  pick(1)

\* list.sort(key=lambda p: p["name"]): stable, ascending
RECURSIVE sort_by_name(_)
sort_by_name(players) ==
    IF players = <<>> THEN <<>>
    ELSE LET n == Len(players)
             p == players[n]
             rest == sort_by_name(SubSeq(players, 1, n - 1))
             k == Cardinality({j \in 1..Len(rest) :
                                 str_rank(rest[j].name) <= str_rank(p.name)})
         IN  SubSeq(rest, 1, k) \o <<p>> \o SubSeq(rest, k + 1, Len(rest))

\* fetch_all_season_players of api_server.py
fetch_all_season_players(season, outcome) ==
    LET from_stats ==
            IF outcome.stats.raises THEN <<>>
            ELSE [i \in 1..Len(outcome.stats.rows) |->
                    [id |-> outcome.stats.rows[i].PLAYER_ID,
                     name |-> outcome.stats.rows[i].PLAYER_NAME]]
        active(row) == /\ row.FROM_YEAR <= season_year(season)
                       /\ season_year(season) <= row.TO_YEAR
                       /\ row.DISPLAY_FIRST_LAST # "" /\ row.PERSON_ID # 0
        kept == SelectSeq(outcome.all.rows, active)
        players ==
            IF from_stats # <<>> THEN from_stats
            ELSE IF outcome.all.raises THEN <<>>
            ELSE [i \in 1..Len(kept) |->
                    [id |-> kept[i].PERSON_ID, name |-> kept[i].DISPLAY_FIRST_LAST]]
    IN  IF players = <<>> THEN <<>> ELSE sort_by_name(unique_players(players))

\* the provider calls fetch_all_season_players makes
season_players_calls(outcome) ==
    IF ~outcome.stats.raises /\ outcome.stats.rows # <<>> THEN <<"stats">>
    ELSE <<"stats", "all">>

\* the memo giving an empty list for a season it already holds
season_players_emptied(season, outcome) ==
    [s \in DOMAIN season_players_cache \cup {season} |->
        IF s # season THEN season_players_cache[s]
        ELSE IF season \in DOMAIN season_players_cache THEN <<>>
        ELSE fetch_all_season_players(season, outcome)]

\* get_all_season_players: the memo after the call
season_players_after(season, outcome) ==
    IF season \in DOMAIN season_players_cache THEN season_players_cache
    ELSE [s \in DOMAIN season_players_cache \cup {season} |->
            IF s = season THEN fetch_all_season_players(season, outcome)
            ELSE season_players_cache[s]]

\* what save_season_players_to_cache leaves in the file
written_players_file(old, wr, season, players) ==
    CASE wr = "ok" ->
             [kind |-> "json",
              data |-> << <<"season", season>>, <<"cached_at", isoformat(now)>>,
                          <<"players", json_dump_players(players, SeasonPlayerFields)>> >>]
      [] wr = "dump_fails" -> Corrupt
      [] OTHER -> old

\* GET /players/{season}
get_season_players(season, outcome, wr, mk) ==
    /\ sport = "nba"
    /\ UNCHANGED <<sport, now, nfl_data_available, season_stats_cache, schedules_cache,
                   coerced, workers>>
    /\ IF ~valid_season_format(season) THEN
            /\ last' = Response("players", "", season, 400, FALSE, <<>>, <<>>, NoSave, None)
            /\ UNCHANGED <<files, season_players_cache, saved>>
       ELSE
       LET key == PlayersKey(season)
           cached_players == cached_players_of(files[key], NBA_CACHE_EXPIRY_HOURS)
       IN
       IF mk = "fails" THEN
            /\ last' = Uncaught("players", "", season, <<>>, saved[key],
                                None, "OSError")
            /\ UNCHANGED <<files, season_players_cache, saved>>
       ELSE IF Truthy(cached_players) THEN
            /\ last' =
                 IF \A i \in 1..Len(cached_players.val) :
                        PlayerModelOk(cached_players.val[i], SeasonPlayerFields)
                 THEN Response("players", "", season, 200, TRUE,
                               [i \in 1..Len(cached_players.val) |->
                                   PlayerModel(cached_players.val[i], SeasonPlayerFields)],
                               <<>>, saved[key], None)
                 ELSE Uncaught("players", "", season, <<>>, saved[key],
                                None, "ValidationError")
            /\ UNCHANGED <<files, season_players_cache, saved>>
       ELSE
       LET memo == season_players_after(season, outcome)
           players == memo[season]
           calls == IF season \in DOMAIN season_players_cache THEN <<>>
                    ELSE season_players_calls(outcome)
       IN
       IF players = <<>> THEN
            /\ season_players_cache' = memo
            /\ last' = Response("players", "", season, 404, FALSE, <<>>, calls, saved[key],
                                Some(players))
            /\ UNCHANGED <<files, saved>>
       ELSE IF mk = "fails_at_save" THEN
            /\ season_players_cache' = memo
            /\ last' = Uncaught("players", "", season, calls, saved[key],
                                Some(players), "OSError")
            /\ UNCHANGED <<files, saved>>
       ELSE
            /\ season_players_cache' = memo
            /\ files' = [files EXCEPT ![key] = written_players_file(@, wr, season, players)]
            /\ saved' = [saved EXCEPT ![key] =
                            IF wr = "ok" THEN [some |-> TRUE, at |-> now, players |-> players]
                            ELSE IF wr = "dump_fails" THEN NoSave
                            ELSE @]
            /\ last' = Response("players", "", season, 200, FALSE, players, calls,
                                saved[key], Some(players))

----------------------------------------------------------------------------
(* scripts/nfl_api_server.py: GET /nfl/record/{team}/{season} *)

TeamRecordFields == <<"team", "season", "wins", "losses", "ties", "record", "winPct">>

\* the file get_record_cache_path names
RecordKey(team, season) == <<"nfl_record", team, season>>
RecordKeys == {RecordKey(t, 2023) : t \in NFL_TEAMS}

\* a row of the season's schedule; a score is a number, NaN or None
Game(game_type, home_team, home_score, away_team, away_score) ==
    [game_type |-> game_type, home_team |-> home_team, away_team |-> away_team,
     home_score |-> home_score, away_score |-> away_score]

\* a win, a tie, a playoff game and a game not played yet
ScheduleA ==
    << Game("REG", "LV", Num(20), "KC", Num(10)),
       Game("REG", "KC", Num(7), "LV", Num(7)),
       Game("POST", "KC", Num(30), "LV", Num(0)),
       Game("REG", "LV", NoneVal, "KC", NaN) >>
\* the team under its earlier abbreviation
ScheduleB ==
    << Game("REG", "OAK", Num(10), "KC", Num(20)),
       Game("REG", "KC", Num(3), "OAK", Num(13)),
       Game("REG", "OAK", NaN, "KC", NaN) >>
\* a schedule without the team
ScheduleC ==
    << Game("REG", "KC", Num(20), "DEN", Num(10)) >>

ScheduleCallOutcomes ==
    {[raises |-> TRUE, rows |-> <<>>]} \cup
    {[raises |-> FALSE, rows |-> t] : t \in {<<>>, ScheduleA, ScheduleB, ScheduleC}}

\* lines 463-497: the records of all teams of a schedule
records_of(schedules) ==
    LET counted(g) == /\ g.game_type = "REG"
                      /\ g.home_score.kind = "num" /\ g.away_score.kind = "num"
        games == SelectSeq(schedules, counted)
        teams == {games[i].home_team : i \in 1..Len(games)} \cup
                 {games[i].away_team : i \in 1..Len(games)}
        won(t, g) == \/ g.home_team = t /\ g.home_score.v > g.away_score.v
                     \/ g.away_team = t /\ g.away_score.v > g.home_score.v
        lost(t, g) == \/ g.home_team = t /\ g.home_score.v < g.away_score.v
                      \/ g.away_team = t /\ g.away_score.v < g.home_score.v
        tied(t, g) == t \in {g.home_team, g.away_team} /\ g.home_score.v = g.away_score.v
    IN  [t \in teams |->
            [wins   |-> Cardinality({i \in 1..Len(games) : won(t, games[i])}),
             losses |-> Cardinality({i \in 1..Len(games) : lost(t, games[i])}),
             ties   |-> Cardinality({i \in 1..Len(games) : tied(t, games[i])})]]

\* round(wins / total_games, 3), in thousandths
win_pct(wins, total_games) ==
    IF total_games > 0 THEN (2000 * wins + total_games) \div (2 * total_games) ELSE 0

\* the record string: f"{wins}-{losses}-{ties}", or f"{wins}-{losses}" without ties
record_str(wins, losses, ties) ==
    IF ties > 0 THEN <<wins, "-", losses, "-", ties>> ELSE <<wins, "-", losses>>

\* the memo of fetch_team_record after the call
schedules_after(season, outcome) ==
    IF season \in DOMAIN schedules_cache \/ outcome.raises \/ outcome.rows = <<>>
    THEN schedules_cache
    ELSE [s \in DOMAIN schedules_cache \cup {season} |->
            IF s = season THEN records_of(outcome.rows) ELSE schedules_cache[s]]

\* fetch_team_record: None, or the record dict
fetch_team_record(team, season, outcome) ==
    IF ~nfl_data_available THEN None
    ELSE IF season \notin DOMAIN schedules_cache /\ (outcome.raises \/ outcome.rows = <<>>)
    THEN None
    ELSE
    LET records == schedules_after(season, outcome)[season]
        data_team == find_team_in_data(team, DOMAIN records)
    IN
    IF ~data_team.some THEN None
    ELSE
    LET team_record == records[data_team.val]
        wins == team_record.wins
        losses == team_record.losses
        ties == team_record.ties
    IN  Some([team |-> team, season |-> season, wins |-> wins, losses |-> losses,
              ties |-> ties, record |-> record_str(wins, losses, ties),
              winPct |-> win_pct(wins, wins + losses + ties)])

\* json.dump(record_data, f): the members in insertion order
json_dump_record(record_data) ==
    [k \in 1..Len(TeamRecordFields) |->
        <<TeamRecordFields[k], record_data[TeamRecordFields[k]]>>]

\* get_cached_record: None, or whatever JSON object the file holds
cached_record_of(file) ==
    IF file.kind = "absent" THEN None
    ELSE IF file.kind = "corrupt" THEN None
    ELSE Some(file.data)

\* pydantic: TeamRecordResponse(**cached_record, cached=True)
TeamRecordModelOk(obj) ==
    /\ Range(TeamRecordFields) \subseteq dict_keys(obj)
    /\ "cached" \notin dict_keys(obj)

\* GET /nfl/record/{team}/{season}
get_team_record(team_in, season, outcome, wr, mk) ==
    /\ sport = "nfl"
    /\ UNCHANGED <<sport, now, season_stats_cache, season_players_cache,
                   nfl_data_available, coerced, workers>>
    /\ LET team == upper(team_in)
       IN
       IF team \notin NFL_TEAMS THEN
            /\ last' = Response("record", team, season, 404, FALSE, <<>>, <<>>, NoSave, None)
            /\ UNCHANGED <<files, schedules_cache, saved>>
       ELSE IF season < 2000 \/ season > 2025 THEN
            /\ last' = Response("record", team, season, 400, FALSE, <<>>, <<>>, NoSave, None)
            /\ UNCHANGED <<files, schedules_cache, saved>>
       ELSE
       LET key == RecordKey(team, season)
           cached_record == cached_record_of(files[key])
       IN
       IF mk = "fails" THEN
            /\ last' = Uncaught("record", team, season, <<>>, saved[key],
                                None, "OSError")
            /\ UNCHANGED <<files, schedules_cache, saved>>
       ELSE IF Truthy(cached_record) THEN
            /\ last' =
                 IF TeamRecordModelOk(cached_record.val)
                 THEN Response("record", team, season, 200, TRUE,
                               <<[f \in Range(TeamRecordFields) |->
                                    dict_get(cached_record.val, f, "")]>>,
                               <<>>, saved[key], None)
                 ELSE Uncaught("record", team, season, <<>>, saved[key],
                                None, "ValidationError")
            /\ UNCHANGED <<files, schedules_cache, saved>>
       ELSE
       LET record_data == fetch_team_record(team, season, outcome)
           calls == IF nfl_data_available /\ season \notin DOMAIN schedules_cache
                    THEN <<"schedules">> ELSE <<>>
       IN
       IF ~record_data.some THEN
            /\ schedules_cache' = IF nfl_data_available
                                  THEN schedules_after(season, outcome)
                                  ELSE schedules_cache
            /\ last' = Response("record", team, season, 404, FALSE, <<>>, calls, saved[key],
                                record_data)
            /\ UNCHANGED <<files, saved>>
       ELSE IF mk = "fails_at_save" THEN
            /\ schedules_cache' = schedules_after(season, outcome)
            /\ last' = Uncaught("record", team, season, calls, saved[key],
                                record_data, "OSError")
            /\ UNCHANGED <<files, saved>>
       ELSE
            /\ schedules_cache' = schedules_after(season, outcome)
            /\ files' = [files EXCEPT ![key] =
                            CASE wr = "ok" -> [kind |-> "json",
                                               data |-> json_dump_record(record_data.val)]
                              [] wr = "dump_fails" -> Corrupt
                              [] OTHER -> @]
            /\ saved' = [saved EXCEPT ![key] =
                            IF wr = "ok" THEN [some |-> TRUE, at |-> now,
                                               players |-> <<record_data.val>>]
                            ELSE IF wr = "dump_fails" THEN NoSave
                            ELSE @]
            /\ last' = Response("record", team, season, 200, FALSE, <<record_data.val>>,
                                calls, saved[key], record_data)

----------------------------------------------------------------------------
(* The servers over a cache directory that may hold files the running server
   did not write, and that may not be creatable.  A behaviour follows one
   cache file: that of a roster, of a season's player list or of a team
   record. *)

\* a file of the cache, written at hour `at` with the given payload, with one of
\* its members left out
json_file_without(missing, at, payload) ==
    LET all == << <<"cached_at", isoformat(at)>>, <<"players", payload>> >>
        keep(m) == m[1] # missing
    IN  [kind |-> "json", data |-> SelectSeq(all, keep)]

\* a payload whose second element lacks the last field of the response model
PayloadLacking(fields) ==
    << [k \in 1..Len(fields) |-> <<fields[k], "x">>],
       [k \in 1..(Len(fields) - 1) |-> <<fields[k], "x">>] >>

\* files found in the cache directory when the server starts: invalid JSON, no
\* cached_at member, no payload member, a payload element without a required field
DamagedFiles(fields) ==
    << Corrupt,
       json_file_without("cached_at", 0, PayloadLacking(fields)),
       json_file_without("players", 0, <<>>),
       json_file_without("", 0, PayloadLacking(fields)) >>

\* a team-record file is the record itself: invalid JSON, an empty object, a
\* record without its last field, a record with a "cached" member
DamagedRecords ==
    << Corrupt,
       [kind |-> "json", data |-> <<>>],
       [kind |-> "json",
        data |-> [k \in 1..(Len(TeamRecordFields) - 1) |-> <<TeamRecordFields[k], 0>>]],
       [kind |-> "json",
        data |-> [k \in 1..Len(TeamRecordFields) |-> <<TeamRecordFields[k], 0>>]
                    \o << <<"cached", TRUE>> >>] >>

FilesFound(key) ==
    LET damaged == IF key \in RecordKeys THEN DamagedRecords
                   ELSE IF key \in PlayersKeys THEN DamagedFiles(SeasonPlayerFields)
                   ELSE IF key \in NbaKeys THEN DamagedFiles(NbaPlayerFields)
                   ELSE DamagedFiles(NflPlayerFields)
    IN  IF sport = "nba" /\ key[2] \in MalformedLabels THEN {Absent}
        ELSE {Absent} \cup Range(damaged)

\* the cache file a behaviour follows
CacheLayouts ==
    IF sport = "nba" THEN {NbaKeys, PlayersKeys} ELSE {NflKeys, RecordKeys}

EndpointInit ==
    /\ sport \in {"nba", "nfl"}
    /\ nfl_data_available = TRUE
    /\ now = 0
    /\ \E keys \in CacheLayouts :
          files \in {f \in [keys -> UNION {FilesFound(k) : k \in keys}] :
                        \A k \in keys : f[k] \in FilesFound(k)}
    /\ saved = [k \in DOMAIN files |-> NoSave]
    /\ season_stats_cache = <<>>
    /\ season_players_cache = <<>> /\ schedules_cache = <<>> /\ coerced = NotCoerced
    /\ workers = NoWorkers
    /\ last = [op |-> "none", team |-> "", season |-> <<>>, at |-> 0, status |-> 0,
               cached |-> FALSE, players |-> <<>>, calls |-> <<>>, before |-> NoSave,
               fetched |-> None, exc |-> "none"]
    /\ era = 0 /\ num_players = 0 /\ runs = 0
    /\ partial_file = [kind |-> "absent"] /\ out_file = [kind |-> "absent"]
    /\ nfl_out_file = [kind |-> "absent"]
    /\ gen = [pc |-> "idle"] /\ upd = [pc |-> "idle"] /\ log = <<>>

\* the provider tables the requests of this specification are answered from
FewRosterCallOutcomes ==
    {o \in RosterCallOutcomes : o.raises \/ Len(o.rows) = 2}
FewStatsCallOutcomes ==
    {o \in StatsCallOutcomes : o.raises \/ o.rows[1].PLAYER_ID = 1}
FewNflRosterCallOutcomes ==
    {o \in NflRosterCallOutcomes : o.raises \/ o.seasonal \in {NflTableA, NflTableC}}

\* the request reaches the cache: its team and season are valid
NbaReaches(team_in, season) ==
    sport = "nba" /\ upper(team_in) \in NBA_TEAMS /\ valid_season_format(season)
NflReaches(team_in, season) ==
    sport = "nfl" /\ upper(team_in) \in NFL_TEAMS /\ ~(season < 2000 \/ season > 2025)

RosterRequest ==
    /\ sport = "nba" /\ NbaKeys \subseteq DOMAIN files
    /\ \E team \in NbaTeamInputs, season \in NbaSeasonInputs :
        \E mk \in (IF NbaReaches(team, season) THEN MkdirOutcomes ELSE {"ok"}) :
         \E ros \in (IF NbaMisses(team, season) /\ mk # "fails"
                     THEN FewRosterCallOutcomes ELSE {NoCall}) :
          \E st \in (IF NbaMisses(team, season) /\ mk # "fails"
                        /\ fetch_team_roster(ros) # <<>>
                        /\ season \notin DOMAIN season_stats_cache
                     THEN FewStatsCallOutcomes ELSE {NoCall}),
             wr \in (IF NbaMisses(team, season) /\ mk = "ok"
                        /\ fetch_team_roster(ros) # <<>>
                     THEN WriteOutcomes ELSE {"ok"}) :
            get_roster(team, season, ros, st, wr, mk)

NoPlayersCall == [stats |-> NoCall, all |-> NoCall]

PlayersMisses(season) ==
    /\ valid_season_format(season)
    /\ ~Truthy(cached_players_of(files[PlayersKey(season)], NBA_CACHE_EXPIRY_HOURS))

PlayersRequest ==
    /\ sport = "nba" /\ PlayersKeys \subseteq DOMAIN files
    /\ \E season \in NbaSeasonInputs :
        \E mk \in (IF valid_season_format(season) THEN MkdirOutcomes ELSE {"ok"}) :
         \E outcome \in (IF PlayersMisses(season) /\ mk # "fails"
                            /\ season \notin DOMAIN season_players_cache
                         THEN SeasonPlayersCallOutcomes ELSE {NoPlayersCall}) :
          \E wr \in (IF PlayersMisses(season) /\ mk = "ok"
                        /\ season_players_after(season, outcome)[season] # <<>>
                     THEN WriteOutcomes ELSE {"ok"}) :
            get_season_players(season, outcome, wr, mk)

NflRosterRequest ==
    /\ sport = "nfl" /\ NflKeys \subseteq DOMAIN files
    /\ \E team \in NflTeamInputs, season \in NflSeasonInputs :
        \E mk \in (IF NflReaches(team, season) THEN MkdirOutcomes ELSE {"ok"}) :
         \E ros \in (IF NflMisses(team, season) /\ mk # "fails"
                     THEN FewNflRosterCallOutcomes ELSE {NflNoCall}) :
          \E wr \in (IF NflMisses(team, season) /\ mk = "ok"
                        /\ nfl_fetch_team_roster(upper(team), season, ros) # <<>>
                     THEN WriteOutcomes ELSE {"ok"}) :
            nfl_get_roster(team, season, ros, wr, mk)

RecordMisses(team_in, season) ==
    /\ NflReaches(team_in, season)
    /\ ~Truthy(cached_record_of(files[RecordKey(upper(team_in), season)]))

RecordRequest ==
    /\ sport = "nfl" /\ RecordKeys \subseteq DOMAIN files
    /\ \E team \in NflTeamInputs, season \in NflSeasonInputs :
        \E mk \in (IF NflReaches(team, season) THEN MkdirOutcomes ELSE {"ok"}) :
         \E outcome \in (IF RecordMisses(team, season) /\ mk # "fails"
                            /\ season \notin DOMAIN schedules_cache
                         THEN ScheduleCallOutcomes ELSE {NoCall}) :
          \E wr \in (IF RecordMisses(team, season) /\ mk = "ok"
                        /\ fetch_team_record(upper(team), season, outcome).some
                     THEN WriteOutcomes ELSE {"ok"}) :
            get_team_record(team, season, outcome, wr, mk)

EndpointNext ==
    \/ RosterRequest /\ UNCHANGED career_vars
    \/ PlayersRequest /\ UNCHANGED career_vars
    \/ NflRosterRequest /\ UNCHANGED career_vars
    \/ RecordRequest /\ UNCHANGED career_vars
    \/ TimePasses /\ UNCHANGED career_vars

EndpointSpec == EndpointInit /\ [][EndpointNext]_vars

----------------------------------------------------------------------------
(* One process of api_server.py serving both the roster and the player-list
   endpoint, started on an empty cache directory *)

ProcessInit ==
    /\ sport = "nba"
    /\ nfl_data_available = TRUE
    /\ now = 0
    /\ files = [k \in NbaKeys \cup PlayersKeys |-> Absent]
    /\ saved = [k \in DOMAIN files |-> NoSave]
    /\ season_stats_cache = <<>>
    /\ season_players_cache = <<>> /\ schedules_cache = <<>> /\ coerced = NotCoerced
    /\ workers = NoWorkers
    /\ last = [op |-> "none", team |-> "", season |-> <<>>, at |-> 0, status |-> 0,
               cached |-> FALSE, players |-> <<>>, calls |-> <<>>, before |-> NoSave,
               fetched |-> None, exc |-> "none"]
    /\ era = 0 /\ num_players = 0 /\ runs = 0
    /\ partial_file = [kind |-> "absent"] /\ out_file = [kind |-> "absent"]
    /\ nfl_out_file = [kind |-> "absent"]
    /\ gen = [pc |-> "idle"] /\ upd = [pc |-> "idle"] /\ log = <<>>

\* requests of a process whose cache directory is in order and whose writes succeed
ProcessRosterRequest ==
    \E team \in NbaTeamInputs, season \in NbaSeasonInputs :
      \E ros \in (IF NbaMisses(team, season) THEN FewRosterCallOutcomes ELSE {NoCall}) :
        \E st \in (IF NbaMisses(team, season) /\ fetch_team_roster(ros) # <<>>
                      /\ season \notin DOMAIN season_stats_cache
                   THEN FewStatsCallOutcomes ELSE {NoCall}) :
            get_roster(team, season, ros, st, "ok", "ok")

ProcessPlayersRequest ==
    \E season \in NbaSeasonInputs :
      \E outcome \in (IF PlayersMisses(season) /\ season \notin DOMAIN season_players_cache
                      THEN SeasonPlayersCallOutcomes ELSE {NoPlayersCall}) :
            get_season_players(season, outcome, "ok", "ok")

ProcessNext ==
    \/ ProcessRosterRequest /\ UNCHANGED career_vars
    \/ ProcessPlayersRequest /\ UNCHANGED career_vars
    \/ TimePasses /\ UNCHANGED career_vars

ProcessSpec == ProcessInit /\ [][ProcessNext]_vars

----------------------------------------------------------------------------
(* The scalar coercions: safe_float / safe_int of generate_nba_careers.py and
   update_nba_careers.py, safe_int / safe_str of generate_nfl_careers.py,
   _safe_int / _safe_str of nfl_api_server.py.  A Python value is a tagged
   record; a float is counted in hundredths. *)

PyNone == [kind |-> "none", v |-> 0, s |-> ""]
PyInt(v) == [kind |-> "int", v |-> v, s |-> ""]
PyFloat(v) == [kind |-> "float", v |-> v, s |-> ""]
PyNaN == [kind |-> "nan", v |-> 0, s |-> ""]
PyInf(sign) == [kind |-> "inf", v |-> sign, s |-> ""]
PyStr(s) == [kind |-> "str", v |-> 0, s |-> s]
PyObject == [kind |-> "object", v |-> 0, s |-> "[]"]

\* the values the helpers are called with: None, integers, finite floats, NaN,
\* the infinities, numeric strings, other strings, a list
CoerceInputs ==
    {PyNone, PyInt(0), PyInt(7), PyInt(0 - 7), PyFloat(314), PyFloat(0 - 370), PyFloat(5),
     PyNaN, PyInf(1), PyInf(0 - 1), PyStr("3"), PyStr("3.5"), PyStr("nan"), PyStr("inf"),
     PyStr("abc"), PyStr(""), PyStr("None"), PyObject}

Returned(val) == [raises |-> FALSE, exc |-> "", val |-> val]
Raised(exc) == [raises |-> TRUE, exc |-> exc, val |-> PyNone]

\* float(val)
py_float(val) ==
    CASE val.kind = "int" -> Returned(PyFloat(val.v * 100))
      [] val.kind \in {"float", "nan", "inf"} -> Returned(val)
      [] val.kind = "str" ->
            (CASE val.s = "3"   -> Returned(PyFloat(300))
               [] val.s = "3.5" -> Returned(PyFloat(350))
               [] val.s = "nan" -> Returned(PyNaN)
               [] val.s = "inf" -> Returned(PyInf(1))
               [] OTHER         -> Raised("ValueError"))
      [] OTHER -> Raised("TypeError")

\* int(f) for a float f: truncation towards zero
trunc(hundredths) ==
    IF hundredths >= 0 THEN hundredths \div 100 ELSE 0 - ((0 - hundredths) \div 100)

\* int(val)
py_int(val) ==
    CASE val.kind = "int" -> Returned(val)
      [] val.kind = "float" -> Returned(PyInt(trunc(val.v)))
      [] val.kind = "nan" -> Raised("ValueError")
      [] val.kind = "inf" -> Raised("OverflowError")
      [] val.kind = "str" -> IF val.s = "3" THEN Returned(PyInt(3)) ELSE Raised("ValueError")
      [] OTHER -> Raised("TypeError")

\* round(f, 1) of a finite float, in hundredths: to the nearest tenth
round_1(hundredths) ==
    IF hundredths >= 0 THEN ((hundredths + 5) \div 10) * 10
    ELSE 0 - (((0 - hundredths) + 5) \div 10) * 10

\* str(val)
py_str(val) ==
    CASE val.kind = "none" -> "None"
      [] val.kind = "nan" -> "nan"
      [] val.kind = "inf" -> IF val.v > 0 THEN "inf" ELSE "-inf"
      [] val.kind = "str" -> val.s
      [] val.kind = "object" -> val.s
      [] val.kind = "int" -> ToString(val.v)
      [] OTHER ->
            LET a == IF val.v < 0 THEN 0 - val.v ELSE val.v
                frac == a % 100
            IN  (IF val.v < 0 THEN "-" ELSE "") \o ToString(a \div 100) \o "." \o
                (IF frac % 10 = 0 THEN ToString(frac \div 10)
                 ELSE IF frac < 10 THEN "0" \o ToString(frac)
                 ELSE ToString(frac))

\* `except (ValueError, TypeError): return default`
caught(outcome, default) ==
    IF outcome.raises /\ outcome.exc \in {"ValueError", "TypeError"}
    THEN Returned(default) ELSE outcome

\* generate_nba_careers.safe_float and update_nba_careers.safe_float
nba_safe_float(val) ==
    IF val.kind = "none" THEN Returned(PyFloat(0))
    ELSE LET f == py_float(val)
         IN  caught(IF f.raises THEN f
                    ELSE IF f.val.kind \in {"nan", "inf"} THEN Returned(PyFloat(0))
                    ELSE Returned(PyFloat(round_1(f.val.v))),
                    PyFloat(0))

\* generate_nba_careers.safe_int and update_nba_careers.safe_int
nba_safe_int(val) ==
    IF val.kind = "none" THEN Returned(PyInt(0))
    ELSE LET f == py_float(val)
         IN  caught(IF f.raises THEN f
                    ELSE IF f.val.kind \in {"nan", "inf"} THEN Returned(PyInt(0))
                    ELSE py_int(f.val),
                    PyInt(0))

\* generate_nfl_careers.safe_int: `default if f != f else int(f)`
nfl_safe_int(val, default) ==
    IF val.kind = "none" THEN Returned(default)
    ELSE LET f == py_float(val)
         IN  caught(IF f.raises THEN f
                    ELSE IF f.val.kind = "nan" THEN Returned(default)
                    ELSE py_int(f.val),
                    default)

\* generate_nfl_careers.safe_str
nfl_safe_str(val, default) ==
    IF val.kind = "none" THEN Returned(default)
    ELSE IF py_str(val) \in {"nan", "None", ""} THEN Returned(default)
    ELSE Returned(PyStr(py_str(val)))

\* nfl_api_server._safe_int
server_safe_int(val, default) ==
    IF val.kind \in {"none", "nan"} THEN Returned(default)
    ELSE caught(py_int(val), default)

\* nfl_api_server._safe_str
server_safe_str(val, default) ==
    IF val.kind \in {"none", "nan"} THEN Returned(default)
    ELSE IF py_str(val) # "" /\ py_str(val) # "nan" /\ py_str(val) # "None"
         THEN Returned(PyStr(py_str(val)))
         ELSE Returned(default)

CoerceHelpers ==
    {"generate_nba_careers.safe_float", "generate_nba_careers.safe_int",
     "update_nba_careers.safe_float", "update_nba_careers.safe_int",
     "generate_nfl_careers.safe_int", "generate_nfl_careers.safe_str",
     "nfl_api_server._safe_int", "nfl_api_server._safe_str"}

\* the type a helper is to return
TargetKind(fn) ==
    IF fn \in {"generate_nba_careers.safe_float", "update_nba_careers.safe_float"}
    THEN "float"
    ELSE IF fn \in {"generate_nfl_careers.safe_str", "nfl_api_server._safe_str"}
    THEN "str" ELSE "int"

\* the defaults the call sites pass
CoerceDefaults(fn) ==
    CASE TargetKind(fn) = "float" -> {PyFloat(0)}
      [] TargetKind(fn) = "int"   -> {PyInt(0)}
      [] OTHER                    -> {PyStr(""), PyStr("???")}

apply_helper(fn, val, default) ==
    CASE fn \in {"generate_nba_careers.safe_float", "update_nba_careers.safe_float"} ->
            nba_safe_float(val)
      [] fn \in {"generate_nba_careers.safe_int", "update_nba_careers.safe_int"} ->
            nba_safe_int(val)
      [] fn = "generate_nfl_careers.safe_int" -> nfl_safe_int(val, default)
      [] fn = "generate_nfl_careers.safe_str" -> nfl_safe_str(val, default)
      [] fn = "nfl_api_server._safe_int" -> server_safe_int(val, default)
      [] OTHER -> server_safe_str(val, default)

\* one call of a helper
coerce(fn, val, default) ==
    /\ coerced' = [fn |-> fn, val |-> val, default |-> default,
                   out |-> apply_helper(fn, val, default)]
    /\ UNCHANGED <<sport, now, files, season_stats_cache, season_players_cache,
                   schedules_cache, workers, saved, last, nfl_data_available>>

CoerceInit ==
    /\ sport \in {"nba", "nfl"}
    /\ nfl_data_available = TRUE
    /\ now = 0
    /\ files = <<>> /\ saved = <<>>
    /\ season_stats_cache = <<>>
    /\ season_players_cache = <<>> /\ schedules_cache = <<>> /\ coerced = NotCoerced
    /\ workers = NoWorkers
    /\ last = [op |-> "none", team |-> "", season |-> <<>>, at |-> 0, status |-> 0,
               cached |-> FALSE, players |-> <<>>, calls |-> <<>>, before |-> NoSave,
               fetched |-> None, exc |-> "none"]
    /\ era = 0 /\ num_players = 0 /\ runs = 0
    /\ partial_file = [kind |-> "absent"] /\ out_file = [kind |-> "absent"]
    /\ nfl_out_file = [kind |-> "absent"]
    /\ gen = [pc |-> "idle"] /\ upd = [pc |-> "idle"] /\ log = <<>>

Coerces ==
    \E fn \in CoerceHelpers, val \in CoerceInputs :
        \E default \in CoerceDefaults(fn) : coerce(fn, val, default)

CoerceNext == Coerces /\ UNCHANGED career_vars

CoerceSpec == CoerceInit /\ [][CoerceNext]_vars

----------------------------------------------------------------------------
(* Two worker processes of api_server.py serving one (team, season)        *)
(*                                                                         *)
(* Each worker handles GET /roster/{team}/{season} with get_cached_roster, *)
(* and on a miss fetches and calls save_to_cache.  The workers share the   *)
(* cache file and nothing else: no lock, no temporary file, no rename.     *)
(* A payload is the text json.dump produces; its length, in cells, varies  *)
(* with the enriched roster ("ppg": 9.9 against 10.0, true against false). *)
(* A roster payload is smaller than the 8192-byte buffer of the file       *)
(* object, so it reaches the file in one write, made when the `with`       *)
(* block closes the file.                                                  *)

Workers == {1, 2}
MaxRequests == 2  \* requests each worker handles
MaxPayload  == 2  \* longest payload, in cells

\* json.dump(payload, f): the cells of the text, the last one closing the document
json_dump(payload) ==
    [i \in 1..payload.len |-> [of |-> payload.id, at |-> i, closes |-> i = payload.len]]

\* json.load(f): the document up to its closing cell; raises when the text
\* ends before the document closes or goes on after it
json_load(bytes) ==
    IF bytes = <<>> THEN None
    ELSE IF \E i \in 1..(Len(bytes) - 1) : bytes[i].closes THEN None
    ELSE IF ~bytes[Len(bytes)].closes THEN None
    ELSE Some(bytes)

\* write(2) of `text` by a descriptor whose offset is 0: the cells beyond
\* the text stay as they are
write_at_start(bytes, text) ==
    [i \in 1..(IF Len(bytes) > Len(text) THEN Len(bytes) ELSE Len(text)) |->
        IF i <= Len(text) THEN text[i] ELSE bytes[i]]

NoPayload == [id |-> <<0, 0>>, len |-> 0]

\* get_cached_roster of worker w, and on a miss the fetch that builds the
\* payload to save (the cached roster is within its expiry window)
WorkerLooksUp(w) ==
    /\ workers.proc[w].pc = "idle"
    /\ workers.proc[w].handled < MaxRequests
    /\ LET data == IF workers.file.exists THEN json_load(workers.file.bytes) ELSE None
       IN IF data.some
          THEN workers' = [workers EXCEPT
                   !.proc[w].handled = @ + 1,
                   !.proc[w].got = [kind |-> "hit", data |-> data.val]]
          ELSE \E len \in 1..MaxPayload :
                   workers' = [workers EXCEPT
                       !.proc[w].pc = "save",
                       !.proc[w].payload = [id |-> <<w, workers.proc[w].handled + 1>>,
                                            len |-> len]]
    /\ UNCHANGED <<sport, now, files, season_stats_cache, season_players_cache,
                   schedules_cache, coerced, saved, last, nfl_data_available>>

\* save_to_cache, first half: open(cache_path, "w") creates or truncates the file
WorkerOpens(w) ==
    /\ workers.proc[w].pc = "save"
    /\ workers' = [workers EXCEPT
           !.file = [exists |-> TRUE, bytes |-> <<>>],
           !.proc[w].pc = "opened"]
    /\ UNCHANGED <<sport, now, files, season_stats_cache, season_players_cache,
                   schedules_cache, coerced, saved, last, nfl_data_available>>

\* save_to_cache, second half: json.dump fills the buffer and the close
\* writes it at offset 0; the handler then answers with the fetched roster
WorkerDumps(w) ==
    /\ workers.proc[w].pc = "opened"
    /\ workers' = [workers EXCEPT
           !.file.bytes = write_at_start(@, json_dump(workers.proc[w].payload)),
           !.wrote_last = workers.proc[w].payload,
           !.dumped = @ \cup {workers.proc[w].payload},
           !.proc[w].pc = "idle",
           !.proc[w].handled = @ + 1,
           !.proc[w].got = [kind |-> "fetched",
                            data |-> json_dump(workers.proc[w].payload)]]
    /\ UNCHANGED <<sport, now, files, season_stats_cache, season_players_cache,
                   schedules_cache, coerced, saved, last, nfl_data_available>>

WorkersInit ==
    /\ sport = "nba"
    /\ nfl_data_available = TRUE
    /\ now = 0
    /\ files = <<>> /\ saved = <<>>
    /\ season_stats_cache = <<>>
    /\ season_players_cache = <<>> /\ schedules_cache = <<>> /\ coerced = NotCoerced
    /\ workers = [kind |-> "pool",
                  file |-> [exists |-> FALSE, bytes |-> <<>>],
                  wrote_last |-> NoPayload,
                  dumped |-> {},
                  proc |-> [w \in Workers |->
                               [pc |-> "idle", handled |-> 0, payload |-> NoPayload,
                                got |-> [kind |-> "none", data |-> <<>>]]]]
    /\ last = [op |-> "none", team |-> "", season |-> <<>>, at |-> 0, status |-> 0,
               cached |-> FALSE, players |-> <<>>, calls |-> <<>>, before |-> NoSave,
               fetched |-> None, exc |-> "none"]
    /\ era = 0 /\ num_players = 0 /\ runs = 0
    /\ partial_file = [kind |-> "absent"] /\ out_file = [kind |-> "absent"]
    /\ nfl_out_file = [kind |-> "absent"]
    /\ gen = [pc |-> "idle"] /\ upd = [pc |-> "idle"] /\ log = <<>>

WorkersNext ==
    \/ (\E w \in Workers : WorkerLooksUp(w)) /\ UNCHANGED career_vars
    \/ (\E w \in Workers : WorkerOpens(w)) /\ UNCHANGED career_vars
    \/ (\E w \in Workers : WorkerDumps(w)) /\ UNCHANGED career_vars

WorkersSpec == WorkersInit /\ [][WorkersNext]_vars

----------------------------------------------------------------------------
(* Properties of the roster servers *)

\* the answered request found a file that a save wrote `age` hours before
ServedAfterSave == last.op = "roster" /\ last.before.some
AgeOfSave == last.at - last.before.at

\* C1: a request that finds its key persisted by an earlier miss, and arrives
\* within the expiry window (age <= 24 h for basketball, <= 168 h for football),
\* is answered 200 with cached = true and exactly the player list, in order,
\* that the earlier request passed to save_to_cache.
C1_WithinWindowServedFromCache ==
    (ServedAfterSave /\ AgeOfSave <= Expiry) =>
        /\ last.status = 200
        /\ last.cached
        /\ last.calls = <<>>
        /\ last.players = last.before.players

C1_Witness ==
    /\ ServedAfterSave /\ AgeOfSave = Expiry
    /\ last.cached /\ Len(last.players) >= 2

\* C2: a request that arrives more than the expiry window after its key was
\* persisted (in particular at T + expiry + 1) is never answered cached = true:
\* it calls the provider for the roster.
C2_AfterExpiryFetchesAfresh ==
    (ServedAfterSave /\ AgeOfSave > Expiry) =>
        /\ ~last.cached
        /\ last.calls # <<>> /\ last.calls[1] = "roster"
        /\ last.fetched.some

C2_Witness ==
    /\ ServedAfterSave /\ AgeOfSave = Expiry + 1
    /\ last.status = 200 /\ ~last.cached
    /\ last.players # last.before.players

SortedByPpgDesc(ppgs) ==
    \A i, j \in 1..Len(ppgs) : i < j => ppgs[i] >= ppgs[j]

\* the per-game scores of the list a cache file holds
FilePpgs(file) ==
    LET players == dict_get(file.data, "players", <<>>)
    IN  [i \in 1..Len(players) |-> dict_get(players[i], "ppg", 0)]

\* C6: the player list of every 200 response of the basketball roster endpoint,
\* and the list in every cache file it wrote, is in non-increasing order of ppg.
C6_RosterSortedByScore ==
    sport = "nba" =>
        /\ last.status = 200 =>
              SortedByPpgDesc([i \in 1..Len(last.players) |-> last.players[i].ppg])
        /\ \A k \in DOMAIN files :
              files[k].kind = "json" => SortedByPpgDesc(FilePpgs(files[k]))

C6_Witness ==
    /\ sport = "nba" /\ last.status = 200 /\ ~last.cached
    /\ Len(last.players) = 3
    /\ last.players[1].ppg > last.players[3].ppg
    /\ last.fetched.val[1].id = last.players[3].id

DistinctIds(players) ==
    \A i, j \in 1..Len(players) : i # j => players[i].id # players[j].id

\* C7: no player identifier appears twice in the player list of a 200 roster
\* response, whatever table the provider returned.
C7_NoDuplicateIdentifiers ==
    (last.op = "roster" /\ last.status = 200) => DistinctIds(last.players)

\* C10: a roster request whose fetch yields no player (no rows, or the provider
\* call raised) is answered 404; no 200 response has an empty player list, and no
\* response is a server error.
C10_EmptyFetchIsNotFound ==
    /\ (last.fetched.some /\ last.fetched.val = <<>>) => last.status = 404
    /\ last.status = 200 => last.players # <<>>
    /\ last.status # 500

C10_Witness ==
    /\ last.op = "roster" /\ last.fetched.some /\ last.fetched.val = <<>>
    /\ last.calls = <<"roster">> /\ last.status = 404

----------------------------------------------------------------------------
(* Properties of the career pools *)

LastRun == log[Len(log)]

SeasonCount(entries) == {Len(entries[k].seasons) : k \in 1..Len(entries)}

NbaPoolEntries(file) == IF file.kind = "json" THEN json_load_entries(file) ELSE <<>>

NflPoolEntries ==
    IF nfl_out_file.kind = "json"
    THEN [i \in 1..Len(nfl_out_file.data) |->
            [f \in Range(NflCareerFields) |-> dict_get(nfl_out_file.data[i], f, <<>>)]]
    ELSE <<>>

\* the basketball pool and its partial file hold entries of two season rows or more
NbaPoolsHaveTwoSeasonRows ==
    /\ \A n \in SeasonCount(NbaPoolEntries(out_file)) : n >= 2
    /\ \A n \in SeasonCount(NbaPoolEntries(partial_file)) : n >= 2

\* C4: every entry of every persisted career pool (basketball generator, updater,
\* football generator) has at least two season rows
C4_EveryEntryHasTwoSeasonRows ==
    /\ NbaPoolsHaveTwoSeasonRows
    /\ \A n \in SeasonCount(NflPoolEntries) : n >= 2

DistinctLabels(entry) ==
    \A a, b \in 1..Len(entry.seasons) :
        entry.seasons[a].season = entry.seasons[b].season => a = b

\* C5: no entry of the basketball pool has two season rows with the same label,
\* after generation and after any sequence of updater runs
C5_NoDuplicateSeasonLabels ==
    /\ \A k \in 1..Len(NbaPoolEntries(out_file)) :
          DistinctLabels(NbaPoolEntries(out_file)[k])
    /\ \A k \in 1..Len(NbaPoolEntries(partial_file)) :
          DistinctLabels(NbaPoolEntries(partial_file)[k])

\* an updater run that appended a season has written a pool in which the player
\* who changed teams has three season rows or more
C5_Witness ==
    /\ Len(log) >= 1
    /\ LastRun.prog = "update"
    /\ \E k \in 1..Len(LastRun.seasons_done) : LastRun.seasons_done[k].updated_ids # {}
    /\ \E k \in 1..Len(NbaPoolEntries(out_file)) :
          /\ Len(NbaPoolEntries(out_file)[k].seasons) >= 3
          /\ \E r \in 1..Len(NbaPoolEntries(out_file)[k].seasons) :
                Len(NbaPoolEntries(out_file)[k].seasons[r].team) >= 2

\* the updater ran twice in a row with the same target seasons, the provider's
\* data being the same
TwoUpdatesInARow ==
    /\ Len(log) = 2
    /\ log[1].prog = "update" /\ log[2].prog = "update"
    /\ log[1].args = log[2].args
    /\ log[1].at_era = log[2].at_era

EntryOf(pool, pid) == {pool[k] : k \in {x \in 1..Len(pool) : pool[x].player_id = pid}}

Resumed == gen.pc = "fetch" /\ gen.resume

EligibleIds(eligible) == {eligible[k].player_id : k \in 1..Len(eligible)}

\* C8: a resumed run skips exactly the identifiers of the N entries of the partial
\* file and fetches every other candidate of the rebuilt eligible list, no one else
C8_ResumeSkipsExactlyThePartial ==
    Resumed =>
        LET held == NbaPoolEntries(gen.partial_at_start)
            todo == EligibleIds(gen.eligible) \ EntryIds(held)
        IN  /\ Cardinality(EntryIds(held)) = Len(held)
            /\ Range(gen.fetched) \subseteq todo
            /\ Cardinality(Range(gen.fetched)) = Len(gen.fetched)
            /\ gen.i = Len(gen.remaining) => Range(gen.fetched) = todo

\* a resumed run that loaded twenty entries or more has fetched all it had to
C8_Witness ==
    /\ Resumed
    /\ Len(NbaPoolEntries(gen.partial_at_start)) >= 20
    /\ gen.i = Len(gen.remaining)
    /\ Len(gen.fetched) >= 2

IsPrefix(a, b) == Len(a) <= Len(b) /\ SubSeq(b, 1, Len(a)) = a

----------------------------------------------------------------------------
(* Properties of the endpoints *)

UnknownTeam ==
    /\ last.op \in {"roster", "record"}
    /\ last.team \notin (IF sport = "nba" THEN NBA_TEAMS ELSE NFL_TEAMS)

MalformedSeason ==
    /\ sport = "nba" /\ last.op \in {"roster", "players"}
    /\ ~UnknownTeam
    /\ last.season \in MalformedLabels

\* C11: a request with an unknown team code is answered 404, and a basketball
\* request whose season label fails the format check is answered 400, without any
\* provider call: the handler made none, and no memo of provider results holds an
\* entry for a malformed label.
C11_RejectedBeforeAnyProviderCall ==
    /\ UnknownTeam => last.status = 404 /\ last.calls = <<>> /\ ~last.fetched.some
    /\ MalformedSeason => last.status = 400 /\ last.calls = <<>> /\ ~last.fetched.some
    /\ \A s \in DOMAIN season_stats_cache \cup DOMAIN season_players_cache :
          s \notin MalformedLabels

\* a malformed player-list request is rejected by a server that has already
\* fetched and memoized the players of a well-formed season
C11_Witness ==
    /\ MalformedSeason /\ last.op = "players" /\ last.status = 400
    /\ season_players_cache # <<>>

\* C14: a roster request whose provider fetch returned players is answered with
\* the fresh roster and cached = false, whatever became of the cache write or of
\* the cache directory; no exception reaches the caller.
C14_CacheFailureIsNotFatal ==
    (last.op = "roster" /\ last.fetched.some /\ last.fetched.val # <<>>) =>
        /\ last.status = 200 /\ ~last.cached
        /\ Len(last.players) = Len(last.fetched.val)

\* the last request passed the checks of its team and season
ReachedTheCache ==
    /\ last.op \in {"roster", "players", "record"}
    /\ ~UnknownTeam /\ ~MalformedSeason
    /\ sport = "nfl" => ~(last.season < 2000 \/ last.season > 2025)

\* the cache file of the last request
KeyOfLast ==
    CASE last.op = "players" -> PlayersKey(last.season)
      [] last.op = "record"  -> RecordKey(last.team, last.season)
      [] OTHER               -> <<last.team, last.season>>

FieldsOfLast ==
    IF last.op = "players" THEN SeasonPlayerFields
    ELSE IF sport = "nba" THEN NbaPlayerFields ELSE NflPlayerFields

\* the file cannot be decoded into a response: it is not JSON, it lacks the
\* cached_at or the payload member, or an element of its payload lacks a field
FailsToDecode(file) ==
    \/ file.kind = "corrupt"
    \/ /\ file.kind = "json"
       /\ IF last.op = "record" THEN ~TeamRecordModelOk(file.data)
          ELSE \/ {"cached_at", "players"} \ dict_keys(file.data) # {}
               \/ \E i \in 1..Len(dict_get(file.data, "players", <<>>)) :
                     ~PlayerModelOk(dict_get(file.data, "players", <<>>)[i], FieldsOfLast)

\* C15: a cache file that fails to decode (invalid JSON, no cached_at, no payload,
\* a payload element without a required field) is a cache miss for the roster, the
\* season-player-list and the team-record endpoints: a request that finds one,
\* and whose cache directory is in order, is answered from the provider (200, not
\* cached) or 404, never with a server error.
C15_DecodeFailureIsAMiss ==
    (ReachedTheCache /\ last.exc # "OSError" /\ FailsToDecode(files[KeyOfLast])) =>
        /\ last.status \in {200, 404}
        /\ ~last.cached

\* the value is a finite number: an integer, a finite float, or a string float()
\* reads as one
FiniteNumber(val) ==
    /\ val.kind \in {"int", "float", "str"}
    /\ val.kind = "str" => val.s \in {"3", "3.5"}

\* C16: no safe_int / safe_float / safe_str helper raises, whatever it is given
\* (None, an integer, a finite float, NaN, an infinity, a numeric or another
\* string, another object); each returns a value of its target type, and the
\* numeric ones return the default for an input that is not a finite number.
C16_CoercionNeverRaises ==
    coerced.fn # "none" =>
        /\ ~coerced.out.raises
        /\ coerced.out.val.kind = TargetKind(coerced.fn)
        /\ (TargetKind(coerced.fn) # "str" /\ ~FiniteNumber(coerced.val)) =>
              coerced.out.val = coerced.default

\* the answer was taken from the cache file of the request's key
ServedFromCache == last.status = 200 /\ last.cached

\* the file read was written by a save at most one expiry period earlier
WithinExpiry == last.before.some /\ last.at - last.before.at <= Expiry

RosterReadHonoursExpiry ==
    (last.op \in {"roster", "players"} /\ ServedFromCache) => WithinExpiry

\* C17: the cache read of every entity type (team roster, season player list,
\* team win/loss record) hands out the stored payload only while
\* now - cached_at <= expiry; a record saved at T is never served after
\* T + expiry.
C17_EveryCacheReadHonoursExpiry ==
    (last.op \in {"roster", "players", "record"} /\ ServedFromCache) => WithinExpiry

\* the file the answered roster request read and the file now under its key
KeyFileOfLast == files[<<last.team, last.season>>]

\* a step that ends with an answer taken from the cache
HitStep == last'.status = 200 /\ last'.cached

\* no step removes a file from the cache directory
NoFileDeleted == \A k \in DOMAIN files : files[k] # Absent => files'[k] # Absent

\* a roster entry saved at T is served at every age <= expiry and at no age
\* beyond it
ServedExactlyWithinExpiry ==
    ServedAfterSave => (last.cached <=> AgeOfSave <= Expiry)

\* C18: the cache read path never changes a cache file: a request answered
\* from the cache leaves every file (and so its cached_at) as it was, and no
\* request deletes a file, a stale one included; hence a roster saved at T is
\* served at every age <= expiry and at no later age, whatever was read in
\* between.
C18_ReadPathChangesNoFile ==
    /\ [][(HitStep => files' = files) /\ NoFileDeleted]_vars
    /\ []ServedExactlyWithinExpiry

\* a roster served from the cache a whole window after its save, the file
\* still carrying the save's cached_at
C18_Witness ==
    /\ ServedAfterSave /\ last.cached /\ last.status = 200
    /\ AgeOfSave >= 1 /\ now = last.at
    /\ KeyFileOfLast.kind = "json"
    /\ dict_get(KeyFileOfLast.data, "cached_at", DEFAULT_CACHED_AT)
         = isoformat(last.before.at)

\* the step's request fetched a roster of at least one player for key k
FetchedPlayersFor(k) ==
    /\ last'.op = "roster" /\ k = <<last'.team, last'.season>>
    /\ last'.calls # <<>> /\ last'.calls[1] = "roster"
    /\ last'.fetched.some /\ last'.fetched.val # <<>>

\* C19: a roster cache file is created or overwritten only by a request whose
\* provider roster fetch returned at least one player; a request whose fetch
\* raised or returned no players leaves the file of its key as it was (absent
\* stays absent, a stale entry keeps its payload and cached_at).
C19_OnlyAFetchedRosterIsWritten ==
    [][\A k \in DOMAIN files : files'[k] # files[k] => FetchedPlayersFor(k)]_vars

\* a stale entry after a request whose fetch brought no player: answered 404,
\* the file still holding the payload and the cached_at of its save
C19_Witness ==
    /\ ServedAfterSave /\ AgeOfSave > Expiry /\ now = last.at
    /\ last.status = 404 /\ last.calls = <<"roster">>
    /\ KeyFileOfLast.kind = "json"
    /\ dict_get(KeyFileOfLast.data, "cached_at", DEFAULT_CACHED_AT)
         = isoformat(last.before.at)
    /\ Len(dict_get(KeyFileOfLast.data, "players", <<>>)) = Len(last.before.players)
    /\ last.before.players # <<>>

----------------------------------------------------------------------------
(* Properties of the failure policy of the career scripts *)

\* C12: no provider call of the eligibility scan (sampled stat tables, player
\* directory), of the detail fetches or of the updater ends a run with its
\* exception: a run never dies of a provider failure.
C12_ProviderFailuresNeverPropagate ==
    ~(gen.pc = "crashed" /\ gen.exc = "CommonAllPlayers")

\* the candidates the generator has gone through are the first gen.i of its list,
\* in order; one whose career call raised has no entry, and one whose call
\* returned has the entry fetch_career builds from its career log
GeneratorSkipsOnlyTheFailed ==
    gen.pc = "fetch" =>
        /\ gen.fetched = [k \in 1..gen.i |-> gen.remaining[k].player_id]
        /\ \A k \in 1..gen.i :
            LET p == gen.remaining[k]
                entry == fetch_career(p.player_id, p.player_name, TRUE, TRUE)
            IN  p.player_id \in EntryIds(gen.careers)
                    <=> (p.player_id \in gen.completed /\ entry.some)

\* the same for the updater's loop over the new candidates of a season
UpdaterSkipsOnlyTheFailed ==
    upd.pc \in {"new", "season"} =>
        /\ Len(upd.tried) = upd.j
        /\ \A k \in 1..upd.j :
            LET p == upd.new_candidates[k]
                entry == fetch_full_career(p.player_id, p.player_name, TRUE, TRUE)
            IN  /\ upd.tried[k].player_id = p.player_id
                /\ p.player_id \in EntryIds(upd.careers_by_id)
                    <=> \E h \in 1..upd.j : /\ upd.tried[h].player_id = p.player_id
                                            /\ ~upd.tried[h].raised /\ entry.some

\* a run that completed went through all its candidates and wrote every entry
\* it held to the pool
CompletedRunWroteAll ==
    (Len(log) >= 1 /\ LastRun.prog \in {"generate", "update"}) =>
        /\ out_file = json_dump_entries(LastRun.pool)
        /\ LastRun.prog = "generate" =>
              LastRun.fetched = [k \in 1..Len(LastRun.remaining) |->
                                    LastRun.remaining[k].player_id]

----------------------------------------------------------------------------
(* Properties of the incremental updater *)

\* a step in which the updater read the stat table of its next season
ReadsSeasonTable ==
    /\ upd.pc = "season" /\ upd'.pc \in {"season", "new"}
    /\ Len(upd'.seasons_done) = Len(upd.seasons_done) + 1
    /\ upd'.seasons_done[Len(upd'.seasons_done)].fetched

TargetSeason == format_season(Head(upd.years))

\* the rows of the target season's table that name the player
RowsOf(pid) ==
    LET sdf == SeasonTable(Head(upd.years))
        names(row) == row.PLAYER_ID = pid
    IN  SelectSeq(sdf, names)

LabelsOf(seasons) == [k \in 1..Len(seasons) |-> seasons[k].season]

AscendingLabels(seasons) ==
    \A i, j \in 1..Len(seasons) : i < j => label_less(seasons[i].season, seasons[j].season)

\* the pooled player is listed in the table and has no row of the target season
LacksTargetSeason(entry) ==
    /\ RowsOf(entry.player_id) # <<>>
    /\ \A k \in 1..Len(entry.seasons) : entry.seasons[k].season # TargetSeason

OtherSeasons(seasons) ==
    LET other(r) == r.season # TargetSeason
    IN  SelectSeq(seasons, other)

TargetSeasons(seasons) ==
    LET target(r) == r.season = TargetSeason
    IN  SelectSeq(seasons, target)

\* C20: when the updater reads the table of a target season, every pooled player
\* the table lists and who has no row of that season gets exactly one row of it,
\* built from his table row; his list is ascending by label afterwards and his
\* other rows are as before; `updated` counts one per such player; every other
\* entry of the pool is unchanged.
C20_OneRowAppendedPerEligiblePlayer ==
    [][ReadsSeasonTable =>
        /\ Len(upd'.careers_by_id) = Len(upd.careers_by_id)
        /\ \A k \in 1..Len(upd.careers_by_id) :
              LET entry == upd.careers_by_id[k]
                  after == upd'.careers_by_id[k]
              IN  IF LacksTargetSeason(entry)
                  THEN /\ after = [entry EXCEPT !.seasons = after.seasons]
                       /\ Len(after.seasons) = Len(entry.seasons) + 1
                       /\ TargetSeasons(after.seasons) =
                            <<build_season_row(RowsOf(entry.player_id)[1], TargetSeason)>>
                       /\ OtherSeasons(after.seasons) = entry.seasons
                       /\ AscendingLabels(after.seasons)
                  ELSE after = entry
        /\ upd'.updated =
              Cardinality({k \in 1..Len(upd.careers_by_id) :
                              LacksTargetSeason(upd.careers_by_id[k])})
        /\ upd'.total_updated = upd.total_updated + upd'.updated]_vars

\* the updater has just appended the target season to a pooled player who had
\* two earlier seasons, and counted him
C20_Witness ==
    /\ upd.pc \in {"season", "new"}
    /\ upd.seasons_done # <<>>
    /\ LET done == upd.seasons_done[Len(upd.seasons_done)]
       IN  /\ done.fetched /\ upd.updated = 1 /\ done.updated_ids # {}
           /\ \A pid \in done.updated_ids :
                 \E k \in 1..Len(upd.careers_by_id) :
                    LET seasons == upd.careers_by_id[k].seasons
                    IN  /\ upd.careers_by_id[k].player_id = pid
                        /\ Len(seasons) = 3
                        /\ seasons[3].season = done.season
                        /\ SubSeq(seasons, 1, 2) = upd.before[k].seasons

\* the player's row of the target season clears the bar of games and scoring
ClearsSeasonBar(pid) ==
    \E k \in 1..Len(RowsOf(pid)) :
        /\ safe_int(RowsOf(pid)[k].GP) >= MIN_GP
        /\ safe_float(RowsOf(pid)[k].PTS) >= UPDATE_MIN_PPG

CandidateIds(candidates) == {candidates[k].player_id : k \in 1..Len(candidates)}

\* a step in which the updater handled one new candidate
HandlesCandidate == upd.pc = "new" /\ upd'.pc \in {"new", "season"}

\* the table scan makes candidates of exactly the players outside the pool whose
\* row clears the bar, and inserts no one
ScanCollectsCandidates ==
    ReadsSeasonTable =>
        /\ EntryIds(upd'.careers_by_id) = EntryIds(upd.careers_by_id)
        /\ CandidateIds(upd'.new_candidates) =
              {pid \in upd'.seasons_done[Len(upd'.seasons_done)].table_ids :
                  pid \notin EntryIds(upd.careers_by_id) /\ ClearsSeasonBar(pid)}

\* a candidate is inserted only with a career of two rows or more
CandidateInsertedWithTwoRows ==
    HandlesCandidate =>
        LET pid == upd.new_candidates[upd.j + 1].player_id
            rows == career_seasons(CareerLog(pid))
            added == EntryIds(upd'.careers_by_id) \ EntryIds(upd.careers_by_id)
        IN  /\ added \subseteq {pid}
            /\ pid \in added =>
                  /\ ClearsSeasonBar(pid)
                  /\ Len(rows) >= 2
                  /\ \A e \in EntryOf(upd'.careers_by_id, pid) : e.seasons = rows
            /\ (Len(rows) < 2 /\ pid \notin EntryIds(upd.careers_by_id)) =>
                  pid \notin EntryIds(upd'.careers_by_id)

\* the pool a finished run wrote holds, beyond the entries it loaded, the
\* inserted candidates only
WrittenPoolAddsOnlyInserted ==
    \A k \in 1..Len(log) :
        log[k].prog = "update" =>
            EntryIds(log[k].pool) \ EntryIds(log[k].before) = log[k].added_ids

\* C21: the updater inserts a player who is not in the pool only if his row of
\* the target season has GP >= 20 and PTS >= 10.0 and his fetched career has at
\* least two season rows; a new player failing the bar or with a shorter career
\* is not in the pool the run writes.
C21_NewPlayerNeedsBarAndTwoRows ==
    /\ [][ScanCollectsCandidates /\ CandidateInsertedWithTwoRows]_vars
    /\ []WrittenPoolAddsOnlyInserted

\* the candidates of a season have all been handled: the productive newcomer
\* with two seasons is in the pool, the one in his first season was fetched and
\* left out, the one with few games was never a candidate
C21_Witness ==
    /\ upd.pc = "season" /\ Len(upd.tried) = 3
    /\ upd.tried[3].player_id = Debutant /\ ~upd.tried[3].raised
    /\ Rookie \in EntryIds(upd.careers_by_id)
    /\ Debutant \notin EntryIds(upd.careers_by_id)
    /\ Benchwarmer \notin EntryIds(upd.careers_by_id)
    /\ Benchwarmer \in upd.seasons_done[Len(upd.seasons_done)].table_ids

\* entry `after` is entry `before` with, at most, season rows added
KeepsEntry(before, after) ==
    /\ after.player_id = before.player_id
    /\ after.player_name = before.player_name
    /\ after.bio = before.bio
    /\ \A r \in 1..Len(before.seasons) :
          \E q \in 1..Len(after.seasons) : after.seasons[q] = before.seasons[r]

\* every entry of `before` is kept in `after`, at its place
KeepsPool(before, after) ==
    /\ Len(after) >= Len(before)
    /\ \A k \in 1..Len(before) : KeepsEntry(before[k], after[k])

\* C22: the updater is monotone on the entries it loaded: every player of the
\* pool before the run is in the pool during and after it, with every season
\* row he had unchanged; none is removed, whatever his production.
C22_UpdaterKeepsExistingEntries ==
    /\ upd.pc # "idle" => KeepsPool(upd.before, upd.careers_by_id)
    /\ \A k \in 1..Len(log) :
          log[k].prog = "update" => KeepsPool(log[k].before, log[k].pool)
    /\ (Len(log) >= 1 /\ LastRun.prog = "update" /\ NoProcess) =>
          KeepsPool(LastRun.before, NbaPoolEntries(out_file))

\* a finished run kept, and gave a further season to, a player whose rows show
\* fewer than 20 games, and added a new player behind him
C22_Witness ==
    /\ Len(log) >= 1 /\ LastRun.prog = "update" /\ NoProcess
    /\ Len(LastRun.before) >= 1
    /\ Len(NbaPoolEntries(out_file)) > Len(LastRun.before)
    /\ LET was == LastRun.before[1]
           is == NbaPoolEntries(out_file)[1]
       IN  /\ is.player_id = was.player_id
           /\ Len(is.seasons) = Len(was.seasons) + 1
           /\ \A r \in 1..Len(is.seasons) : is.seasons[r].gp < MIN_GP

----------------------------------------------------------------------------
(* Properties of the in-process memos *)

\* a memo keeps every season it holds, with the result it holds for it
MemoKept(memo, memo_after) ==
    \A s \in DOMAIN memo : s \in DOMAIN memo_after /\ memo_after[s] = memo[s]

\* the answered request asked the provider for the season's scoring table
AskedScoringTable(answer) == "stats" \in Range(answer.calls)

\* the fetch of a memo runs only for a season the memo does not hold, and leaves
\* the season in the memo
MemoFetchesOnce ==
    last' # last =>
        /\ (last'.op = "roster" /\ AskedScoringTable(last')) =>
              /\ last'.season \notin DOMAIN season_stats_cache
              /\ last'.season \in DOMAIN season_stats_cache'
        /\ (last'.op = "players" /\ last'.calls # <<>>) =>
              /\ last'.season \notin DOMAIN season_players_cache
              /\ last'.season \in DOMAIN season_players_cache'

\* C23 as stated: in one process the provider's league-wide scoring table is
\* requested at most once per season, and the season player list at most once
\* per season, whatever the sequence of requests
C23_EachTableRequestedOnce ==
    [][/\ MemoKept(season_stats_cache, season_stats_cache')
       /\ MemoKept(season_players_cache, season_players_cache')
       /\ MemoFetchesOnce
       /\ (last' # last /\ AskedScoringTable(last')) =>
             last'.season \notin DOMAIN season_stats_cache \cup DOMAIN season_players_cache
      ]_vars

\* C23: in one process each memoized fetch (get_season_stats for the roster
\* endpoint, get_all_season_players for the player-list endpoint) runs at most
\* once per season, whether it succeeded or failed, and its result, an empty
\* one included, is reused unchanged afterwards; the two memos are separate, so
\* the provider's scoring table may be requested once for each of them
C23_EachMemoFetchesOnce ==
    [][/\ MemoKept(season_stats_cache, season_stats_cache')
       /\ MemoKept(season_players_cache, season_players_cache')
       /\ MemoFetchesOnce
      ]_vars

\* a roster enriched from a memoized empty scoring table, without a scoring
\* call, in a process that also holds the season's player list
C23_Witness ==
    /\ last.op = "roster" /\ last.status = 200 /\ ~last.cached
    /\ last.calls = <<"roster">>
    /\ last.season \in DOMAIN season_stats_cache
    /\ DOMAIN season_stats_cache[last.season] = {}
    /\ last.season \in DOMAIN season_players_cache

----------------------------------------------------------------------------
(* Properties of uncoordinated workers *)

\* what a worker's lookup returned is the whole text of one save_to_cache
ReaderObtainsCompleteOrMiss ==
    \A w \in Workers :
        workers.proc[w].got.kind = "hit" =>
            \E p \in workers.dumped : workers.proc[w].got.data = json_dump(p)

\* no save_to_cache is between its open and its write
AllWritersFinished == \A w \in Workers : workers.proc[w].pc # "opened"

FileHoldsLastWriter ==
    (AllWritersFinished /\ workers.file.exists) =>
        workers.file.bytes = json_dump(workers.wrote_last)

\* C24: with two uncoordinated workers on one (team, season), a lookup returns
\* either the complete payload of one save or a miss, and once no save is in
\* progress the file holds exactly the payload of the save that wrote last.
C24_LastWriterWins == ReaderObtainsCompleteOrMiss /\ FileHoldsLastWriter

----------------------------------------------------------------------------
(* Properties of the generator's checkpoints *)

\* the entries a resumed run would load from the partial file on disk
PartialEntries ==
    IF partial_file.kind = "json" THEN Range(json_load_entries(partial_file)) ELSE {}

\* the entries obtained by the current run, or by the run just killed, that the
\* partial file lacks
Unflushed ==
    CASE gen.pc = "fetch"  -> gen.obtained \ PartialEntries
      [] gen.pc = "killed" -> gen.results \ PartialEntries
      [] OTHER             -> {}

\* C25: at every point of the detail-fetch phase, and after an interruption at
\* any point of it, the partial file lacks the results of fewer than 25
\* candidates processed in the current run.
C25_FewerThan25Unflushed == Cardinality(Unflushed) < CHECKPOINT_EVERY

----------------------------------------------------------------------------
(* Properties of the roster enrichment *)

\* the request was answered with a roster enriched by this request
EnrichedNow == sport = "nba" /\ last.op = "roster" /\ last.status = 200 /\ ~last.cached

\* the scoring table of the season as fetch_season_stats keeps it: a row per
\* row of the provider's table, <<PLAYER_ID, score to one decimal>>
ScoringTable == season_stats_cache[last.season]

ScoringRowsOf(id) == {r \in 1..Len(ScoringTable) : ScoringTable[r][1] = id}

\* the row of the player, the later one when the table lists him twice
ScoringRowOf(id) ==
    ScoringTable[CHOOSE r \in ScoringRowsOf(id) : \A q \in ScoringRowsOf(id) : q <= r]

\* C26: in every roster-enrichment output each row's per-game score is the score
\* of the scoring-table row with the same player identifier, or 0 when there is
\* none, and its low-scorer flag is true exactly when that score is below 10.0.
C26_ScoreJoinedByIdentifier ==
    EnrichedNow =>
        \A i \in 1..Len(last.players) :
            LET p == last.players[i]
            IN  /\ p.ppg = (IF ScoringRowsOf(p.id) = {} THEN 0
                            ELSE ScoringRowOf(p.id)[2])
                /\ p.isLowScorer <=> (p.ppg < 100)

\* an enriched roster with an unmatched player, flagged, and a matched one whose
\* score of 9.96 was kept as 10.0, not flagged
C26_Witness ==
    /\ EnrichedNow
    /\ \E i, j \in 1..Len(last.players) :
          /\ ScoringRowsOf(last.players[i].id) = {}
          /\ last.players[i].ppg = 0 /\ last.players[i].isLowScorer
          /\ ScoringRowsOf(last.players[j].id) # {}
          /\ last.players[j].ppg = 100 /\ ~last.players[j].isLowScorer

----------------------------------------------------------------------------
(* Properties of the player-list endpoint in a long-lived process *)

\* the process holds a non-empty list for the season
Memoized(season) ==
    season \in DOMAIN season_players_cache /\ season_players_cache[season] # <<>>

\* the step handles GET /players/{season}
HandlesPlayers(season) ==
    now' = now /\ last'.op = "players" /\ last'.season = season /\ last'.at = now

\* the file of the season as save_season_players_to_cache writes it at time t
PlayersFileAt(season, players, t) ==
    [kind |-> "json",
     data |-> << <<"season", season>>, <<"cached_at", isoformat(t)>>,
                 <<"players", json_dump_players(players, SeasonPlayerFields)>> >>]

ServesMemoized ==
    \A season \in NbaSeasonInputs :
        (Memoized(season) /\ PlayersMisses(season) /\ HandlesPlayers(season)) =>
            /\ last'.status = 200
            /\ ~last'.cached
            /\ last'.calls = <<>>
            /\ last'.players = season_players_cache[season]
            /\ season_players_cache' = season_players_cache
            /\ files'[PlayersKey(season)] =
                   PlayersFileAt(season, season_players_cache[season], now)

\* C27: once a non-empty list for a season is memoized, every later request for
\* the season that misses the file cache (file absent or expired) returns the
\* memoized list without a provider call, flagged cached = false, and rewrites
\* the cache file with cached_at set to the time of the request.
C27_MemoServedAndRestamped == [][ServesMemoized]_vars

\* a list saved at T is served from the memo more than an expiry window later,
\* with no provider call, and the file now carries the time of this request
C27_Witness ==
    /\ last.op = "players" /\ last.status = 200 /\ ~last.cached /\ last.calls = <<>>
    /\ last.before.some
    /\ last.at - last.before.at > NBA_CACHE_EXPIRY_HOURS
    /\ last.players = last.before.players
    /\ files[PlayersKey(last.season)] = PlayersFileAt(last.season, last.players, last.at)

----------------------------------------------------------------------------
(* Properties of the updater's writes *)

UpdaterRuns == upd.pc # "idle"

\* the final write of main, lines 250-253
FinalWriteStep ==
    /\ upd.pc = "season" /\ upd.years = <<>>
    /\ upd'.pc = "idle"
    /\ out_file' = json_dump_entries(upd.careers_by_id)

\* from the start of a run on, the pool file changes in the final write only
PoolFileWrittenOnlyAtTheEnd ==
    /\ (UpdaterRuns /\ out_file' # out_file) => FinalWriteStep
    /\ (~UpdaterRuns /\ upd'.pc # "idle") => out_file' = out_file

\* the step in which the stat-table call of a season raised
SeasonFailsStep ==
    /\ UpdaterRuns /\ upd'.pc # "idle"
    /\ Len(upd'.seasons_done) = Len(upd.seasons_done) + 1
    /\ ~upd'.seasons_done[Len(upd'.seasons_done)].fetched

\* the failed season changes nothing and the run goes on with the next one
FailedSeasonIsSkipped ==
    SeasonFailsStep =>
        /\ upd'.careers_by_id = upd.careers_by_id
        /\ upd'.total_updated = upd.total_updated /\ upd'.total_added = upd.total_added
        /\ upd'.pc = "season" /\ upd'.years = Tail(upd.years)

\* while the updater runs the file on disk is the one it loaded
FileAsLoaded == UpdaterRuns => out_file = json_dump_entries(upd.before)

\* every finished run went through all its seasons and wrote its pool
AllSeasonsProcessed ==
    \A r \in 1..Len(log) :
        log[r].prog = "update" => Len(log[r].seasons_done) = Len(log[r].args)

\* C28: the updater changes the pool file only in its single final write, so a
\* run that stops earlier leaves the file as it was loaded; a season whose
\* stat-table call fails contributes no change, and the remaining seasons are
\* still processed and written.
C28_UpdaterWritesOnceAtTheEnd ==
    /\ [][PoolFileWrittenOnlyAtTheEnd /\ FailedSeasonIsSkipped]_vars
    /\ [](FileAsLoaded /\ AllSeasonsProcessed)

\* a finished run of two seasons whose first stat-table call raised, although
\* the provider had the season, and whose second was made; the pool was written
C28_Witness ==
    /\ Len(log) >= 1 /\ ~UpdaterRuns
    /\ LET run == log[Len(log)]
       IN  /\ run.prog = "update"
           /\ Len(run.seasons_done) = 2
           /\ ~run.seasons_done[1].fetched /\ run.seasons_done[2].fetched
           /\ run.at_era >= FirstEra + 1
           /\ out_file = json_dump_entries(run.pool)

----------------------------------------------------------------------------
(* Properties of the generator's final write *)

\* the entries readable in a file
EntriesIn(file) == IF file.kind = "json" THEN Range(json_load_entries(file)) ELSE {}

\* the step removes the partial file
DeletesPartial == partial_file # Absent /\ partial_file' = Absent

\* the partial file on disk was loaded by the run, or written by it
PartialIsOfThisRun == gen.resume \/ gen.i >= CHECKPOINT_EVERY

\* C29 as stated: whenever the run deletes the partial file, the final pool file
\* exists and contains every entry the partial file held.
C29_FinalPoolHoldsThePartial ==
    [][DeletesPartial =>
          /\ out_file'.kind = "json"
          /\ EntriesIn(partial_file) \subseteq EntriesIn(out_file')]_vars

\* C29: the partial file is removed only in the step that writes the final pool
\* with everything the run accumulated: the entries it loaded from the partial
\* file and the entries it obtained.  The final pool therefore contains every
\* entry of a partial file the run loaded (--resume) or wrote at a checkpoint;
\* a partial file of an earlier run that was not loaded is removed as well.
C29_PartialRemovedAfterFinalWrite ==
    [][DeletesPartial =>
          /\ gen.pc = "fetch" /\ gen.i = Len(gen.remaining)
          /\ out_file' = json_dump_entries(gen.careers)
          /\ gen.obtained \subseteq EntriesIn(out_file')
          /\ gen.resume => EntriesIn(gen.partial_at_start) \subseteq EntriesIn(out_file')
          /\ PartialIsOfThisRun => EntriesIn(partial_file) \subseteq EntriesIn(out_file')]_vars

\* a resumed run ended: it had loaded a partial file with entries, fetched more,
\* wrote the pool with both and removed the partial file
C29_Witness ==
    /\ Len(log) >= 1 /\ gen.pc = "idle"
    /\ LET run == log[Len(log)]
       IN  /\ run.prog = "generate" /\ run.resume
           /\ EntriesIn(run.partial_at_start) # {}
           /\ run.fetched # <<>>
           /\ partial_file = Absent
           /\ out_file = json_dump_entries(run.pool)
           /\ EntriesIn(run.partial_at_start) \subseteq EntriesIn(out_file)
           /\ Cardinality(EntriesIn(out_file)) > Cardinality(EntriesIn(run.partial_at_start))

----------------------------------------------------------------------------
(* Properties of a roster enriched without the scoring table *)

\* the scoring fetch of the season failed: fetch_season_stats returned {} and
\* the process keeps it
ScoringFailed(season) ==
    season \in DOMAIN season_stats_cache /\ season_stats_cache[season] = <<>>

ZeroScoreRoster(players) ==
    /\ players # <<>>
    /\ \A i \in 1..Len(players) : players[i].ppg = 0 /\ players[i].isLowScorer

RosterAnswered == sport = "nba" /\ last.op = "roster"

\* the request fetched a roster of at least one player
FetchedARoster == ~last.cached /\ last.fetched.some /\ last.fetched.val # <<>>

\* the answer to a request that fetched the roster while the scoring failed
DegradedRosterServedAndSaved ==
    (RosterAnswered /\ FetchedARoster /\ ScoringFailed(last.season)) =>
        /\ last.status = 200
        /\ ZeroScoreRoster(last.players)
        /\ {last.players[i].id : i \in 1..Len(last.players)}
             = {last.fetched.val[i].id : i \in 1..Len(last.fetched.val)}
        /\ Len(last.players) = Len(last.fetched.val)
        /\ KeyFileOfLast.kind = "json"
        /\ dict_get(KeyFileOfLast.data, "players", <<>>)
             = json_dump_players(last.players, NbaPlayerFields)
        /\ dict_get(KeyFileOfLast.data, "cached_at", DEFAULT_CACHED_AT)
             = isoformat(last.at)

\* a later request for the pair within the expiry window
DegradedRosterServedFromCache ==
    (RosterAnswered /\ ServedAfterSave /\ AgeOfSave <= NBA_CACHE_EXPIRY_HOURS
        /\ ScoringFailed(last.season)) =>
        /\ last.status = 200
        /\ last.cached
        /\ last.calls = <<>>
        /\ last.players = last.before.players
        /\ ZeroScoreRoster(last.players)

\* C30: when the roster fetch succeeds and the league-wide scoring fetch fails,
\* the request is answered 200 with every player at score 0 and flagged low
\* scorer, the roster is written to the cache file, and every request for the
\* pair within the expiry window is answered with that roster, cached = true,
\* without a provider call.
C30_DegradedRosterIsCached == DegradedRosterServedAndSaved /\ DegradedRosterServedFromCache

\* a zero-score roster, saved when the scoring call raised, is served from the
\* cache some hours later
C30_Witness ==
    /\ RosterAnswered /\ ServedAfterSave /\ ScoringFailed(last.season)
    /\ AgeOfSave >= 1 /\ AgeOfSave <= NBA_CACHE_EXPIRY_HOURS
    /\ last.cached /\ last.calls = <<>>
    /\ ZeroScoreRoster(last.players)
    /\ Len(last.players) = 2

====
